---- MODULE Spec2Model ----
(***************************************************************************)
(* A model of rope's region patcher (rope/refactor/patchedast.py) and of   *)
(* the parser adapter and tree helpers it uses (rope/base/ast.py).         *)
(*                                                                         *)
(* Text is a sequence of one-character strings.  Offsets are Python's:     *)
(* 0-based, and a slice [i:j] holds the characters i .. j-1.               *)
(***************************************************************************)
EXTENDS Integers, Sequences, FiniteSets, TLC

VARIABLES
    source,          \* _Source.source: the buffer the walker scans
    tree,            \* the nodes of the tree handed to patch_ast, by node id
    parsed,          \* TRUE when tree is what the parser returns for source
    children,        \* _PatchingASTWalker.children (the sorted_children flag)
    offset,          \* _Source.offset: the cursor
    stack,           \* the _handle activations in progress (children_stack)
    region,          \* node id -> the node's region attribute, or NoRegion
    sorted_children, \* node id -> the node's sorted_children attribute
    warnings,        \* the warnings emitted so far, oldest first
    status,          \* "idle", "walking", "returned" or "raised"
    error,           \* the exception that left the last call, or ""
    calls,           \* how many calls have been made so far
    baseline,        \* the regions an earlier call gave the same program, or <<>>
    recursive,       \* call_for_nodes: its recursive argument
    visited,         \* call_for_nodes: the callback's calls and results so far
    ret              \* what the last call returned or did

vars == <<source, tree, parsed, children, offset, stack, region,
          sorted_children, warnings, status, error, calls, baseline, recursive, visited,
          ret>>

-----------------------------------------------------------------------------
(* Python values and string primitives                                     *)

\* Python's None where the code uses it for an offset (rfind_token's result).
None == 0 - 1000

\* The id that stands for an absent node (a field holding None).
NoNode == 0

\* A node that has no region attribute yet.
NoRegion == [start |-> None, end |-> None, set |-> FALSE]

Region(s, e) == [start |-> s, end |-> e, set |-> TRUE]

Min2(a, b) == IF a < b THEN a ELSE b

Max2(a, b) == IF a < b THEN b ELSE a

Least(S) == CHOOSE x \in S : \A y \in S : x <= y

Greatest(S) == CHOOSE x \in S : \A y \in S : y <= x

\* A slice bound as Python resolves it: None is the default, a negative index
\* counts from the end, and everything is clamped to 0 .. len.
Bound(i, n, default) ==
    IF i = None THEN default
    ELSE IF i < 0 THEN Max2(n + i, 0)
    ELSE Min2(i, n)

\* s[i:j]
Slice(s, i, j) ==
    LET lo == Bound(i, Len(s), 0)
        hi == Bound(j, Len(s), Len(s))
    IN  IF hi <= lo THEN <<>> ELSE SubSeq(s, lo + 1, hi)

\* s[i:i+len(t)] == t, for an offset i inside the buffer
StartsAt(s, t, i) ==
    /\ i >= 0
    /\ i + Len(t) <= Len(s)
    /\ \A k \in 1..Len(t) : s[i + k] = t[k]

\* s.index(t, from); None stands for the ValueError of a failed search.
Index(s, t, from) ==
    LET hits == {i \in Bound(from, Len(s), 0)..(Len(s) - Len(t)) : StartsAt(s, t, i)}
    IN  IF from > Len(s) \/ hits = {} THEN None ELSE Least(hits)

\* s.rindex(t, lo, hi); None stands for the ValueError of a failed search.
RIndex(s, t, lo, hi) ==
    LET l == Bound(lo, Len(s), 0)
        h == Bound(hi, Len(s), Len(s))
        hits == {i \in l..(h - Len(t)) : StartsAt(s, t, i)}
    IN  IF hits = {} THEN None ELSE Greatest(hits)

NL == "\n"

-----------------------------------------------------------------------------
(* _Source: the token scanner                                              *)

\* What a consuming call does: the region it returns and the cursor it leaves,
\* or the exception it raises (with the cursor as the call left it).
Consumed(s, e) == [err |-> "", start |-> s, end |-> e, offset |-> e]

Raised(kind, off) == [err |-> kind, start |-> None, end |-> None, offset |-> off]

\* _Source._good_token(token, offset, start): is the match at tokenOffset
\* outside a comment, judged from the text in [start, tokenOffset)?
AlwaysGoodToken(s, tokenOffset, start) == TRUE

_good_token(s, tokenOffset, start) ==
    LET comment_index == RIndex(s, <<"#">>, start, tokenOffset)
        new_line_index == RIndex(s, <<NL>>, start, tokenOffset)
    IN  IF comment_index = None THEN TRUE
        ELSE IF new_line_index = None THEN FALSE
        ELSE comment_index < new_line_index

\* _Source._skip_comment(): the cursor it sets, or None for its ValueError.
_skip_comment(s, off) == Index(s, <<NL>>, off + 1)

\* _Source.consume(token)
ConsumeAnyOccurrence(s, off, token) ==
    IF Index(s, token, off) = None THEN Raised("MismatchedTokenError", off)
    ELSE Consumed(Index(s, token, off), Index(s, token, off) + Len(token))

RECURSIVE consume(_, _, _)
consume(s, off, token) ==
    LET new_offset == Index(s, token, off)
    IN  IF new_offset = None THEN Raised("MismatchedTokenError", off)
        ELSE IF _good_token(s, new_offset, off)
             THEN Consumed(new_offset, new_offset + Len(token))
        ELSE IF _skip_comment(s, off) = None
             THEN Raised("MismatchedTokenError", off)
        ELSE consume(s, _skip_comment(s, off), token)

\* _Source.rfind_token(token, start, end): an offset, or None.
RECURSIVE rfind_token(_, _, _, _)
rfind_token(s, token, start, end) ==
    LET index == RIndex(s, token, start, end)
    IN  IF index = None THEN None
        ELSE IF _good_token(s, index, start) THEN index
        ELSE rfind_token(s, token, start, index)

\* _Source.consume_joined_string(token), index being source.index(token,
\* offset): a failed index leaves the call as a ValueError, and no comment
\* is looked for.
JoinedAt(off, token, index) ==
    IF index = None THEN Raised("ValueError", off)
    ELSE Consumed(index, index + Len(token))

consume_joined_string(s, off, token) == JoinedAt(off, token, Index(s, token, off))

-----------------------------------------------------------------------------
(* The compiled patterns of _Source and re.search over them                *)

Digit == {"0", "1", "2", "3", "4", "5", "6", "7", "8", "9"}

HexDigit == Digit \cup {"a", "b", "c", "d", "e", "f", "A", "B", "C", "D", "E", "F"}

\* What \s matches.
Space == {" ", NL, "\t", "\r"}

\* The character at offset i of the text that ends at e, or "" past the end.
At(s, i, e) == IF i >= 0 /\ i < e /\ i < Len(s) THEN s[i + 1] ELSE ""

StartsWithin(s, t, i, e) == i + Len(t) <= e /\ StartsAt(s, t, i)

\* Where the longest run of characters of set C starting at i ends ([C]*).
RunEnd(s, i, e, C) == Least({j \in i..Max2(i, e) : At(s, j, e) \notin C})

\* r"(0x[\da-fA-F]+|\d+)" at p, given where the run of hex digits after "0x"
\* ends and where the run of decimal digits ends: the first alternative that
\* matches at least one digit.
DigitsEnd(p, hex, dec) ==
    IF hex > p + 2 THEN hex ELSE IF dec > p THEN dec ELSE None

\* An optional one-character suffix out of C after a match that ends at q.
Suffix(s, q, e, C) ==
    IF q = None THEN None ELSE IF At(s, q, e) \in C THEN q + 1 ELSE q

\* r"(0x[\da-fA-F]+|\d+)[lL]?" at p
UnsignedAt(s, p, e) ==
    Suffix(s, DigitsEnd(p, IF StartsWithin(s, <<"0", "x">>, p, e)
                           THEN RunEnd(s, p + 2, e, HexDigit) ELSE p + 2,
                        RunEnd(s, p, e, Digit)),
           e, {"l", "L"})

\* r"\-?(0x[\da-fA-F]+|\d+)[lL]?": where the integer starting at i ends.
IntegerAt(s, i, e) == UnsignedAt(s, IF At(s, i, e) = "-" THEN i + 1 ELSE i, e)

\* r"(\.\d+)" at i, given where the run of digits after the point ends.
FractionEnd(i, run) == IF run > i + 1 THEN run ELSE None

\* r"(%s(\.\d*)?|(\.\d+))" at i, given where the integer at i ends.
MantissaAt(s, i, e, int) ==
    IF int # None
    THEN IF At(s, int, e) = "." THEN RunEnd(s, int + 1, e, Digit) ELSE int
    ELSE IF At(s, i, e) = "." THEN FractionEnd(i, RunEnd(s, i + 1, e, Digit))
    ELSE None

\* r"([eE][-+]?\d+)?" after a mantissa that ends at m, given where the
\* exponent's digits start and where their run ends.
ExponentEnd(s, e, m, sign, run) ==
    IF At(s, m, e) \in {"e", "E"} /\ run > sign THEN run ELSE m

ExponentFrom(s, e, m, sign) == ExponentEnd(s, e, m, sign, RunEnd(s, sign, e, Digit))

ExponentAt(s, e, m) ==
    ExponentFrom(s, e, m, IF At(s, m + 1, e) \in {"-", "+"} THEN m + 2 ELSE m + 1)

\* r"(...)([eE][-+]?\d+)?[jJ]?" given where the mantissa ends.
NumberFrom(s, e, m) ==
    IF m = None THEN None ELSE Suffix(s, ExponentAt(s, e, m), e, {"j", "J"})

\* _Source._get_number_pattern():
\* r"(%s(\.\d*)?|(\.\d+))([eE][-+]?\d+)?[jJ]?" % integer
NumberAt(s, i, e) == NumberFrom(s, e, MantissaAt(s, i, e, IntegerAt(s, i, e)))

\* codeanalyze.get_string_pattern() and get_formatted_string_pattern(), for
\* the literals the model's buffers hold: a one-line string in either quote
\* with no backslash, with no prefix or with the prefix f.
\* Closing(s, e, q, body): the literal opened by quote q, whose body ends at
\* body, ends after the quote that closes it.
Closing(s, e, q, body) ==
    IF q \in {"\"", "'"} /\ At(s, body, e) = q THEN body + 1 ELSE None

StringBody(s, i, e, q) ==
    Closing(s, e, q, RunEnd(s, i + 1, e, {s[k] : k \in 1..Len(s)} \ {q, "\\", NL}))

\* (?<![fF]) : the literal without prefix does not start after an f.
NotAfterF(s, i) == i = 0 \/ s[i] \notin {"f", "F"}

ShortStringAt(s, i, e) ==
    IF At(s, i, e) \in {"f", "F"} THEN StringBody(s, i + 1, e, At(s, i + 1, e))
    ELSE IF NotAfterF(s, i) THEN StringBody(s, i, e, At(s, i, e))
    ELSE None

\* The newline that ends the comment starting at i, when it lies before e.
CommentEnd(e, nl) == IF nl # None /\ nl < e THEN nl + 1 ELSE None

\* (\s|\\\n|#[^\n]*\n)* : where the run of blanks, continuation lines and
\* whole comments starting at i ends.
RECURSIVE BlanksEnd(_, _, _)
RECURSIVE AfterComment(_, _, _, _)
AfterComment(s, i, e, end) == IF end = None THEN i ELSE BlanksEnd(s, end, e)

BlanksEnd(s, i, e) ==
    IF At(s, i, e) \in Space THEN BlanksEnd(s, i + 1, e)
    ELSE IF StartsWithin(s, <<"\\", NL>>, i, e) THEN BlanksEnd(s, i + 2, e)
    ELSE IF At(s, i, e) = "#" THEN AfterComment(s, i, e, CommentEnd(e, Index(s, <<NL>>, i)))
    ELSE i

\* _Source.consume_string's pattern r"({})((\s|\\\n|#[^\n]*\n)*({}))*":
\* a string literal and the literals juxtaposed to it.
RECURSIVE StringAt(_, _, _)
RECURSIVE StringsFrom(_, _, _)
\* The match so far ends at first; rest is where it ends with one more literal.
Longest(first, rest) == IF rest = None THEN first ELSE rest

StringsFrom(s, e, first) ==
    IF first = None THEN None
    ELSE Longest(first, StringAt(s, BlanksEnd(s, first, e), e))

StringAt(s, i, e) == StringsFrom(s, e, ShortStringAt(s, i, e))

\* An alternation of literal texts, tried left to right at offset i.
FirstOf(i, alts, ok) == IF ok = {} THEN None ELSE i + Len(alts[Least(ok)])

AltAt(s, i, e, alts) ==
    FirstOf(i, alts, {k \in 1..Len(alts) : StartsWithin(s, alts[k], i, e)})

\* r"\(\s*\)" at i, given where the blanks after the "(" end.
EmptyTupleEnd(s, i, e, blanks) ==
    IF At(s, i, e) = "(" /\ At(s, blanks, e) = ")" THEN blanks + 1 ELSE None

\* The alternatives of the patterns of lines 961-985, in the order written.
Alternatives(pattern) ==
    CASE pattern = "!=" -> << <<"<", ">">>, <<"!", "=">> >>
      [] pattern = "semicolon_or_as_in_except" -> << <<"a", "s">>, <<",">> >>
      [] pattern = "exec_open_paren_or_space" -> << <<"(">>, <<>> >>
      [] pattern = "exec_in_or_comma" -> << <<"i", "n">>, <<",">> >>
      [] pattern = "exec_close_paren_or_space" -> << <<")">>, <<>> >>
      [] pattern = "with_or_comma_context_manager" -> << <<"w", "i", "t", "h">>, <<",">> >>

\* Where the match of the named pattern that starts at i ends, or None.
MatchAt(pattern, s, i, e) ==
    CASE pattern = "Number" -> NumberAt(s, i, e)
      [] pattern = "String" -> StringAt(s, i, e)
      [] pattern = "empty_tuple" -> EmptyTupleEnd(s, i, e, RunEnd(s, i + 1, e, Space))
      [] OTHER -> AltAt(s, i, e, Alternatives(pattern))

\* The element kinds _handle consumes by pattern (lines 122-147).
Patterns == {"Number", "String", "empty_tuple", "!=", "semicolon_or_as_in_except",
             "exec_open_paren_or_space", "exec_in_or_comma",
             "exec_close_paren_or_space", "with_or_comma_context_manager"}

\* repattern.search(source, pos, endpos): the leftmost match; a start of None
\* stands for the None of a failed search.
NoMatch == [start |-> None, end |-> None]

\* A search that returns the last match instead of the first.
Rightmost(pattern, s, e, hits) ==
    IF hits = {} THEN NoMatch
    ELSE [start |-> Greatest(hits), end |-> MatchAt(pattern, s, Greatest(hits), e)]

Leftmost(pattern, s, e, hits) ==
    IF hits = {} THEN NoMatch
    ELSE [start |-> Least(hits), end |-> MatchAt(pattern, s, Least(hits), e)]

SearchTo(pattern, s, pos, e) ==
    Leftmost(pattern, s, e, {i \in pos..e : MatchAt(pattern, s, i, e) # None})

Search(pattern, s, pos, endpos) == SearchTo(pattern, s, pos, Min2(endpos, Len(s)))

\* _Source._consume_pattern(repattern, end)
RECURSIVE _consume_pattern(_, _, _, _)
RECURSIVE Matched(_, _, _, _, _)
\* Lines 1013-1018, for the match the search of line 1012 returned.
Matched(s, off, pattern, e, match) ==
    IF match.start = None THEN Raised("AttributeError", off)
    ELSE IF _good_token(s, match.start, off) THEN Consumed(match.start, match.end)
    ELSE IF _skip_comment(s, off) = None THEN Raised("ValueError", off)
    ELSE _consume_pattern(s, _skip_comment(s, off), pattern, e)

\* Lines 1010-1012, with end as line 1011 leaves it.
SearchFrom(s, off, pattern, e) == Matched(s, off, pattern, e, Search(pattern, s, off, e))

_consume_pattern(s, off, pattern, end) ==
    SearchFrom(s, off, pattern, IF end = None THEN Len(s) ELSE end)

-----------------------------------------------------------------------------
(* The trees the parser returns for some small programs                   *)

\* ast.parse('a + b\n')
Program1 ==
    [source |-> <<"a", " ", "+", " ", "b", NL>>,
     parsed |-> TRUE,
     tree |-> <<
        [class |-> "Module", stmt |-> FALSE, body |-> <<2>>],
        [class |-> "Expr", stmt |-> TRUE, lineno |-> 1, col_offset |-> 0, value |-> 3],
        [class |-> "BinOp", stmt |-> FALSE, lineno |-> 1, col_offset |-> 0, left |-> 4, op |-> "Add", right |-> 5],
        [class |-> "Name", stmt |-> FALSE, lineno |-> 1, col_offset |-> 0, id |-> <<"a">>],
        [class |-> "Name", stmt |-> FALSE, lineno |-> 1, col_offset |-> 4, id |-> <<"b">>]
     >>]

\* ast.parse('x = (1 #)\n + 2)\n')
Program2 ==
    [source |-> <<"x", " ", "=", " ", "(", "1", " ", "#", ")", NL, " ", "+", " ", "2", ")", NL>>,
     parsed |-> TRUE,
     tree |-> <<
        [class |-> "Module", stmt |-> FALSE, body |-> <<2>>],
        [class |-> "Assign", stmt |-> TRUE, lineno |-> 1, col_offset |-> 0, targets |-> <<3>>, value |-> 4],
        [class |-> "Name", stmt |-> FALSE, lineno |-> 1, col_offset |-> 0, id |-> <<"x">>],
        [class |-> "BinOp", stmt |-> FALSE, lineno |-> 1, col_offset |-> 5, left |-> 5, op |-> "Add", right |-> 6],
        [class |-> "Constant", stmt |-> FALSE, lineno |-> 1, col_offset |-> 5, value |-> "num"],
        [class |-> "Constant", stmt |-> FALSE, lineno |-> 2, col_offset |-> 3, value |-> "num"]
     >>]

\* ast.parse('((a, b))\n')
Program3 ==
    [source |-> <<"(", "(", "a", ",", " ", "b", ")", ")", NL>>,
     parsed |-> TRUE,
     tree |-> <<
        [class |-> "Module", stmt |-> FALSE, body |-> <<2>>],
        [class |-> "Expr", stmt |-> TRUE, lineno |-> 1, col_offset |-> 0, value |-> 3],
        [class |-> "Tuple", stmt |-> FALSE, lineno |-> 1, col_offset |-> 1, elts |-> <<4, 5>>],
        [class |-> "Name", stmt |-> FALSE, lineno |-> 1, col_offset |-> 2, id |-> <<"a">>],
        [class |-> "Name", stmt |-> FALSE, lineno |-> 1, col_offset |-> 5, id |-> <<"b">>]
     >>]

\* ast.parse('f(a, b=2, *c)\n')
Program4 ==
    [source |-> <<"f", "(", "a", ",", " ", "b", "=", "2", ",", " ", "*", "c", ")", NL>>,
     parsed |-> TRUE,
     tree |-> <<
        [class |-> "Module", stmt |-> FALSE, body |-> <<2>>],
        [class |-> "Expr", stmt |-> TRUE, lineno |-> 1, col_offset |-> 0, value |-> 3],
        [class |-> "Call", stmt |-> FALSE, lineno |-> 1, col_offset |-> 0, func |-> 4, args |-> <<5, 6>>, keywords |-> <<8>>],
        [class |-> "Name", stmt |-> FALSE, lineno |-> 1, col_offset |-> 0, id |-> <<"f">>],
        [class |-> "Name", stmt |-> FALSE, lineno |-> 1, col_offset |-> 2, id |-> <<"a">>],
        [class |-> "Starred", stmt |-> FALSE, lineno |-> 1, col_offset |-> 10, value |-> 7],
        [class |-> "Name", stmt |-> FALSE, lineno |-> 1, col_offset |-> 11, id |-> <<"c">>],
        [class |-> "keyword", stmt |-> FALSE, lineno |-> 1, col_offset |-> 5, arg |-> <<"b">>, value |-> 9],
        [class |-> "Constant", stmt |-> FALSE, lineno |-> 1, col_offset |-> 7, value |-> "num"]
     >>]

\* ast.parse('f(a # )\n)\n')
Program5 ==
    [source |-> <<"f", "(", "a", " ", "#", " ", ")", NL, ")", NL>>,
     parsed |-> TRUE,
     tree |-> <<
        [class |-> "Module", stmt |-> FALSE, body |-> <<2>>],
        [class |-> "Expr", stmt |-> TRUE, lineno |-> 1, col_offset |-> 0, value |-> 3],
        [class |-> "Call", stmt |-> FALSE, lineno |-> 1, col_offset |-> 0, func |-> 4, args |-> <<5>>, keywords |-> <<>>],
        [class |-> "Name", stmt |-> FALSE, lineno |-> 1, col_offset |-> 0, id |-> <<"f">>],
        [class |-> "Name", stmt |-> FALSE, lineno |-> 1, col_offset |-> 2, id |-> <<"a">>]
     >>]

\* ast.parse('x = ()\n')
Program6 ==
    [source |-> <<"x", " ", "=", " ", "(", ")", NL>>,
     parsed |-> TRUE,
     tree |-> <<
        [class |-> "Module", stmt |-> FALSE, body |-> <<2>>],
        [class |-> "Assign", stmt |-> TRUE, lineno |-> 1, col_offset |-> 0, targets |-> <<3>>, value |-> 4],
        [class |-> "Name", stmt |-> FALSE, lineno |-> 1, col_offset |-> 0, id |-> <<"x">>],
        [class |-> "Tuple", stmt |-> FALSE, lineno |-> 1, col_offset |-> 4, elts |-> <<>>]
     >>]

\* ast.parse('x = \'a\' "b"\n')
Program7 ==
    [source |-> <<"x", " ", "=", " ", "'", "a", "'", " ", "\"", "b", "\"", NL>>,
     parsed |-> TRUE,
     tree |-> <<
        [class |-> "Module", stmt |-> FALSE, body |-> <<2>>],
        [class |-> "Assign", stmt |-> TRUE, lineno |-> 1, col_offset |-> 0, targets |-> <<3>>, value |-> 4],
        [class |-> "Name", stmt |-> FALSE, lineno |-> 1, col_offset |-> 0, id |-> <<"x">>],
        [class |-> "Constant", stmt |-> FALSE, lineno |-> 1, col_offset |-> 4, value |-> "str"]
     >>]

\* ast.parse('y = 0x1F\n')
Program8 ==
    [source |-> <<"y", " ", "=", " ", "0", "x", "1", "F", NL>>,
     parsed |-> TRUE,
     tree |-> <<
        [class |-> "Module", stmt |-> FALSE, body |-> <<2>>],
        [class |-> "Assign", stmt |-> TRUE, lineno |-> 1, col_offset |-> 0, targets |-> <<3>>, value |-> 4],
        [class |-> "Name", stmt |-> FALSE, lineno |-> 1, col_offset |-> 0, id |-> <<"y">>],
        [class |-> "Constant", stmt |-> FALSE, lineno |-> 1, col_offset |-> 4, value |-> "num"]
     >>]

\* ast.parse('"#" + (a) * b\n')
Program9 ==
    [source |-> <<"\"", "#", "\"", " ", "+", " ", "(", "a", ")", " ", "*", " ", "b", NL>>,
     parsed |-> TRUE,
     tree |-> <<
        [class |-> "Module", stmt |-> FALSE, body |-> <<2>>],
        [class |-> "Expr", stmt |-> TRUE, lineno |-> 1, col_offset |-> 0, value |-> 3],
        [class |-> "BinOp", stmt |-> FALSE, lineno |-> 1, col_offset |-> 0, left |-> 4, op |-> "Add", right |-> 5],
        [class |-> "Constant", stmt |-> FALSE, lineno |-> 1, col_offset |-> 0, value |-> "str"],
        [class |-> "BinOp", stmt |-> FALSE, lineno |-> 1, col_offset |-> 6, left |-> 6, op |-> "Mult", right |-> 7],
        [class |-> "Name", stmt |-> FALSE, lineno |-> 1, col_offset |-> 7, id |-> <<"a">>],
        [class |-> "Name", stmt |-> FALSE, lineno |-> 1, col_offset |-> 12, id |-> <<"b">>]
     >>]

\* ast.parse('(c)\n"#" + (a) * b\n')
Program10 ==
    [source |-> <<"(", "c", ")", NL, "\"", "#", "\"", " ", "+", " ", "(", "a", ")", " ", "*", " ", "b", NL>>,
     parsed |-> TRUE,
     tree |-> <<
        [class |-> "Module", stmt |-> FALSE, body |-> <<2, 4>>],
        [class |-> "Expr", stmt |-> TRUE, lineno |-> 1, col_offset |-> 0, value |-> 3],
        [class |-> "Name", stmt |-> FALSE, lineno |-> 1, col_offset |-> 1, id |-> <<"c">>],
        [class |-> "Expr", stmt |-> TRUE, lineno |-> 2, col_offset |-> 0, value |-> 5],
        [class |-> "BinOp", stmt |-> FALSE, lineno |-> 2, col_offset |-> 0, left |-> 6, op |-> "Add", right |-> 7],
        [class |-> "Constant", stmt |-> FALSE, lineno |-> 2, col_offset |-> 0, value |-> "str"],
        [class |-> "BinOp", stmt |-> FALSE, lineno |-> 2, col_offset |-> 6, left |-> 8, op |-> "Mult", right |-> 9],
        [class |-> "Name", stmt |-> FALSE, lineno |-> 2, col_offset |-> 7, id |-> <<"a">>],
        [class |-> "Name", stmt |-> FALSE, lineno |-> 2, col_offset |-> 12, id |-> <<"b">>]
     >>]

\* ast.parse('with a as b: pass\n')
Program11 ==
    [source |-> <<"w", "i", "t", "h", " ", "a", " ", "a", "s", " ", "b", ":", " ", "p", "a", "s", "s", NL>>,
     parsed |-> TRUE,
     tree |-> <<
        [class |-> "Module", stmt |-> FALSE, body |-> <<2>>],
        [class |-> "With", stmt |-> TRUE, lineno |-> 1, col_offset |-> 0, items |-> <<3>>, body |-> <<6>>],
        [class |-> "withitem", stmt |-> FALSE, context_expr |-> 4, optional_vars |-> 5],
        [class |-> "Name", stmt |-> FALSE, lineno |-> 1, col_offset |-> 5, id |-> <<"a">>],
        [class |-> "Name", stmt |-> FALSE, lineno |-> 1, col_offset |-> 10, id |-> <<"b">>],
        [class |-> "Pass", stmt |-> TRUE, lineno |-> 1, col_offset |-> 13]
     >>]

\* ast.parse('def f(*a): pass\n')
Program12 ==
    [source |-> <<"d", "e", "f", " ", "f", "(", "*", "a", ")", ":", " ", "p", "a", "s", "s", NL>>,
     parsed |-> TRUE,
     tree |-> <<
        [class |-> "Module", stmt |-> FALSE, body |-> <<2>>],
        [class |-> "FunctionDef", stmt |-> TRUE, lineno |-> 1, col_offset |-> 0, name |-> <<"f">>, args |-> 3, body |-> <<5>>, decorator_list |-> <<>>],
        [class |-> "arguments", stmt |-> FALSE, args |-> <<>>, defaults |-> <<>>, vararg |-> 4, kwarg |-> NoNode],
        [class |-> "arg", stmt |-> FALSE, lineno |-> 1, col_offset |-> 7, arg |-> <<"a">>],
        [class |-> "Pass", stmt |-> TRUE, lineno |-> 1, col_offset |-> 11]
     >>]

\* ast.parse('nonlocal a\nb\n')
Program13 ==
    [source |-> <<"n", "o", "n", "l", "o", "c", "a", "l", " ", "a", NL, "b", NL>>,
     parsed |-> TRUE,
     tree |-> <<
        [class |-> "Module", stmt |-> FALSE, body |-> <<2, 3>>],
        [class |-> "Nonlocal", stmt |-> TRUE, lineno |-> 1, col_offset |-> 0, names |-> <<<<"a">>>>],
        [class |-> "Expr", stmt |-> TRUE, lineno |-> 2, col_offset |-> 0, value |-> 4],
        [class |-> "Name", stmt |-> FALSE, lineno |-> 2, col_offset |-> 0, id |-> <<"b">>]
     >>]

\* one Name node used as both operands (built by hand); the text is 'a + a\n'
Program14 ==
    [source |-> <<"a", " ", "+", " ", "a", NL>>,
     parsed |-> FALSE,
     tree |-> <<
        [class |-> "Module", stmt |-> FALSE, body |-> <<2>>],
        [class |-> "Expr", stmt |-> TRUE, lineno |-> 1, col_offset |-> 0, value |-> 3],
        [class |-> "BinOp", stmt |-> FALSE, lineno |-> 1, col_offset |-> 0, left |-> 4, op |-> "Add", right |-> 4],
        [class |-> "Name", stmt |-> FALSE, lineno |-> 1, col_offset |-> 0, id |-> <<"a">>]
     >>]

\* the tree of a + b, paired with another text; the text is 'a - b\n'
Program15 ==
    [source |-> <<"a", " ", "-", " ", "b", NL>>,
     parsed |-> FALSE,
     tree |-> <<
        [class |-> "Module", stmt |-> FALSE, body |-> <<2>>],
        [class |-> "Expr", stmt |-> TRUE, lineno |-> 1, col_offset |-> 0, value |-> 3],
        [class |-> "BinOp", stmt |-> FALSE, lineno |-> 1, col_offset |-> 0, left |-> 4, op |-> "Add", right |-> 5],
        [class |-> "Name", stmt |-> FALSE, lineno |-> 1, col_offset |-> 0, id |-> <<"a">>],
        [class |-> "Name", stmt |-> FALSE, lineno |-> 1, col_offset |-> 4, id |-> <<"b">>]
     >>]

\* the tree of f(a), paired with a text whose only ) is in a comment; the text is 'f(a # )\n'
Program16 ==
    [source |-> <<"f", "(", "a", " ", "#", " ", ")", NL>>,
     parsed |-> FALSE,
     tree |-> <<
        [class |-> "Module", stmt |-> FALSE, body |-> <<2>>],
        [class |-> "Expr", stmt |-> TRUE, lineno |-> 1, col_offset |-> 0, value |-> 3],
        [class |-> "Call", stmt |-> FALSE, lineno |-> 1, col_offset |-> 0, func |-> 4, args |-> <<5>>, keywords |-> <<>>],
        [class |-> "Name", stmt |-> FALSE, lineno |-> 1, col_offset |-> 0, id |-> <<"f">>],
        [class |-> "Name", stmt |-> FALSE, lineno |-> 1, col_offset |-> 2, id |-> <<"a">>]
     >>]

\* ast.parse('x = ((a, b))\n')
Program17 ==
    [source |-> <<"x", " ", "=", " ", "(", "(", "a", ",", " ", "b", ")", ")", NL>>,
     parsed |-> TRUE,
     tree |-> <<
        [class |-> "Module", stmt |-> FALSE, body |-> <<2>>],
        [class |-> "Assign", stmt |-> TRUE, lineno |-> 1, col_offset |-> 0, targets |-> <<3>>, value |-> 4],
        [class |-> "Name", stmt |-> FALSE, lineno |-> 1, col_offset |-> 0, id |-> <<"x">>],
        [class |-> "Tuple", stmt |-> FALSE, lineno |-> 1, col_offset |-> 5, elts |-> <<5, 6>>],
        [class |-> "Name", stmt |-> FALSE, lineno |-> 1, col_offset |-> 6, id |-> <<"a">>],
        [class |-> "Name", stmt |-> FALSE, lineno |-> 1, col_offset |-> 9, id |-> <<"b">>]
     >>]

\* ast.parse('y = 1_000\n')
Program18 ==
    [source |-> <<"y", " ", "=", " ", "1", "_", "0", "0", "0", NL>>,
     parsed |-> TRUE,
     tree |-> <<
        [class |-> "Module", stmt |-> FALSE, body |-> <<2>>],
        [class |-> "Assign", stmt |-> TRUE, lineno |-> 1, col_offset |-> 0, targets |-> <<3>>, value |-> 4],
        [class |-> "Name", stmt |-> FALSE, lineno |-> 1, col_offset |-> 0, id |-> <<"y">>],
        [class |-> "Constant", stmt |-> FALSE, lineno |-> 1, col_offset |-> 4, value |-> "num"]
     >>]

\* ast.parse('f"{a}"\n')
Program19 ==
    [source |-> <<"f", "\"", "{", "a", "}", "\"", NL>>,
     parsed |-> TRUE,
     tree |-> <<
        [class |-> "Module", stmt |-> FALSE, body |-> <<2>>],
        [class |-> "Expr", stmt |-> TRUE, lineno |-> 1, col_offset |-> 0, value |-> 3],
        [class |-> "JoinedStr", stmt |-> FALSE, lineno |-> 1, col_offset |-> 0, values |-> <<4>>],
        [class |-> "FormattedValue", stmt |-> FALSE, lineno |-> 1, col_offset |-> 0, value |-> 5, format_spec |-> NoNode],
        [class |-> "Name", stmt |-> FALSE, lineno |-> 1, col_offset |-> 3, id |-> <<"a">>]
     >>]

\* ast.parse('with a, b:\n with c: pass\n')
Program20 ==
    [source |-> <<"w", "i", "t", "h", " ", "a", ",", " ", "b", ":", NL, " ", "w", "i", "t", "h", " ", "c", ":", " ", "p", "a", "s", "s", NL>>,
     parsed |-> TRUE,
     tree |-> <<
        [class |-> "Module", stmt |-> FALSE, body |-> <<2>>],
        [class |-> "With", stmt |-> TRUE, lineno |-> 1, col_offset |-> 0, items |-> <<3, 5>>, body |-> <<7>>],
        [class |-> "withitem", stmt |-> FALSE, context_expr |-> 4, optional_vars |-> NoNode],
        [class |-> "Name", stmt |-> FALSE, lineno |-> 1, col_offset |-> 5, id |-> <<"a">>],
        [class |-> "withitem", stmt |-> FALSE, context_expr |-> 6, optional_vars |-> NoNode],
        [class |-> "Name", stmt |-> FALSE, lineno |-> 1, col_offset |-> 8, id |-> <<"b">>],
        [class |-> "With", stmt |-> TRUE, lineno |-> 2, col_offset |-> 1, items |-> <<8>>, body |-> <<10>>],
        [class |-> "withitem", stmt |-> FALSE, context_expr |-> 9, optional_vars |-> NoNode],
        [class |-> "Name", stmt |-> FALSE, lineno |-> 2, col_offset |-> 6, id |-> <<"c">>],
        [class |-> "Pass", stmt |-> TRUE, lineno |-> 2, col_offset |-> 9]
     >>]

\* ast.parse('if a:\n b\nelif c:\n d\nelse:\n e\n')
Program21 ==
    [source |-> <<"i", "f", " ", "a", ":", NL, " ", "b", NL, "e", "l", "i", "f", " ", "c", ":", NL, " ", "d", NL, "e", "l", "s", "e", ":", NL, " ", "e", NL>>,
     parsed |-> TRUE,
     tree |-> <<
        [class |-> "Module", stmt |-> FALSE, body |-> <<2>>],
        [class |-> "If", stmt |-> TRUE, lineno |-> 1, col_offset |-> 0, test |-> 3, body |-> <<4>>, orelse |-> <<6>>],
        [class |-> "Name", stmt |-> FALSE, lineno |-> 1, col_offset |-> 3, id |-> <<"a">>],
        [class |-> "Expr", stmt |-> TRUE, lineno |-> 2, col_offset |-> 1, value |-> 5],
        [class |-> "Name", stmt |-> FALSE, lineno |-> 2, col_offset |-> 1, id |-> <<"b">>],
        [class |-> "If", stmt |-> TRUE, lineno |-> 3, col_offset |-> 0, test |-> 7, body |-> <<8>>, orelse |-> <<10>>],
        [class |-> "Name", stmt |-> FALSE, lineno |-> 3, col_offset |-> 5, id |-> <<"c">>],
        [class |-> "Expr", stmt |-> TRUE, lineno |-> 4, col_offset |-> 1, value |-> 9],
        [class |-> "Name", stmt |-> FALSE, lineno |-> 4, col_offset |-> 1, id |-> <<"d">>],
        [class |-> "Expr", stmt |-> TRUE, lineno |-> 6, col_offset |-> 1, value |-> 11],
        [class |-> "Name", stmt |-> FALSE, lineno |-> 6, col_offset |-> 1, id |-> <<"e">>]
     >>]

\* ast.parse('if a:\n b\nelse:\n if c: d\n')
Program22 ==
    [source |-> <<"i", "f", " ", "a", ":", NL, " ", "b", NL, "e", "l", "s", "e", ":", NL, " ", "i", "f", " ", "c", ":", " ", "d", NL>>,
     parsed |-> TRUE,
     tree |-> <<
        [class |-> "Module", stmt |-> FALSE, body |-> <<2>>],
        [class |-> "If", stmt |-> TRUE, lineno |-> 1, col_offset |-> 0, test |-> 3, body |-> <<4>>, orelse |-> <<6>>],
        [class |-> "Name", stmt |-> FALSE, lineno |-> 1, col_offset |-> 3, id |-> <<"a">>],
        [class |-> "Expr", stmt |-> TRUE, lineno |-> 2, col_offset |-> 1, value |-> 5],
        [class |-> "Name", stmt |-> FALSE, lineno |-> 2, col_offset |-> 1, id |-> <<"b">>],
        [class |-> "If", stmt |-> TRUE, lineno |-> 4, col_offset |-> 1, test |-> 7, body |-> <<8>>, orelse |-> <<>>],
        [class |-> "Name", stmt |-> FALSE, lineno |-> 4, col_offset |-> 4, id |-> <<"c">>],
        [class |-> "Expr", stmt |-> TRUE, lineno |-> 4, col_offset |-> 7, value |-> 9],
        [class |-> "Name", stmt |-> FALSE, lineno |-> 4, col_offset |-> 7, id |-> <<"d">>]
     >>]

\* ast.parse('#elif\nif a: b\n')
Program23 ==
    [source |-> <<"#", "e", "l", "i", "f", NL, "i", "f", " ", "a", ":", " ", "b", NL>>,
     parsed |-> TRUE,
     tree |-> <<
        [class |-> "Module", stmt |-> FALSE, body |-> <<2>>],
        [class |-> "If", stmt |-> TRUE, lineno |-> 2, col_offset |-> 0, test |-> 3, body |-> <<4>>, orelse |-> <<>>],
        [class |-> "Name", stmt |-> FALSE, lineno |-> 2, col_offset |-> 3, id |-> <<"a">>],
        [class |-> "Expr", stmt |-> TRUE, lineno |-> 2, col_offset |-> 6, value |-> 5],
        [class |-> "Name", stmt |-> FALSE, lineno |-> 2, col_offset |-> 6, id |-> <<"b">>]
     >>]

\* ast.parse('if a: b\n#elif\n')
Program24 ==
    [source |-> <<"i", "f", " ", "a", ":", " ", "b", NL, "#", "e", "l", "i", "f", NL>>,
     parsed |-> TRUE,
     tree |-> <<
        [class |-> "Module", stmt |-> FALSE, body |-> <<2>>],
        [class |-> "If", stmt |-> TRUE, lineno |-> 1, col_offset |-> 0, test |-> 3, body |-> <<4>>, orelse |-> <<>>],
        [class |-> "Name", stmt |-> FALSE, lineno |-> 1, col_offset |-> 3, id |-> <<"a">>],
        [class |-> "Expr", stmt |-> TRUE, lineno |-> 1, col_offset |-> 6, value |-> 5],
        [class |-> "Name", stmt |-> FALSE, lineno |-> 1, col_offset |-> 6, id |-> <<"b">>]
     >>]

\* The programs the model patches.
Corpus == <<Program1, Program2, Program3, Program4, Program5, Program6, Program7, Program8, Program9, Program10, Program11, Program12, Program13, Program14, Program15, Program16, Program17, Program18, Program19, Program20, Program21, Program22, Program23, Program24>>

-----------------------------------------------------------------------------
(* The elements of a rule's expected sequence and of sorted_children       *)

\* A nested node, a literal token, and a marker consumed by pattern.
Node(i) == [t |-> "node", id |-> i, s |-> <<>>]

Tok(s) == [t |-> "tok", id |-> NoNode, s |-> s]

Marker(m) == [t |-> m, id |-> NoNode, s |-> <<>>]

\* A fragment of source text in sorted_children.
Text(s) == [t |-> "text", id |-> NoNode, s |-> s]

\* A field value that is neither a node nor a string (a list, None).
Value == [t |-> "value", id |-> NoNode, s |-> <<>>]

Nodes(ids) == [k \in 1..Len(ids) |-> Node(ids[k])]

\* _PatchingASTWalker._join / _child_nodes: the nodes with separator between.
_child_nodes(nodes, separator) ==
    [k \in 1..(IF Len(nodes) = 0 THEN 0 ELSE 2 * Len(nodes) - 1) |->
        IF k % 2 = 1 THEN nodes[(k + 1) \div 2] ELSE separator]

\* _PatchingASTWalker._operators, each spelling already split into words.
_operators ==
    [And |-> << <<"a", "n", "d">> >>, Or |-> << <<"o", "r">> >>,
     Add |-> << <<"+">> >>, Sub |-> << <<"-">> >>, Mult |-> << <<"*">> >>,
     Div |-> << <<"/">> >>, Mod |-> << <<"%">> >>, Pow |-> << <<"*", "*">> >>,
     MatMult |-> << <<"@">> >>, LShift |-> << <<"<", "<">> >>,
     RShift |-> << <<">", ">">> >>, BitOr |-> << <<"|">> >>,
     BitAnd |-> << <<"&">> >>, BitXor |-> << <<"^">> >>,
     FloorDiv |-> << <<"/", "/">> >>, Invert |-> << <<"~">> >>,
     Not |-> << <<"n", "o", "t">> >>, UAdd |-> << <<"+">> >>,
     USub |-> << <<"-">> >>, Eq |-> << <<"=", "=">> >>,
     NotEq |-> << <<"!", "=">> >>, Lt |-> << <<"<">> >>,
     LtE |-> << <<"<", "=">> >>, Gt |-> << <<">">> >>,
     GtE |-> << <<">", "=">> >>, Is |-> << <<"i", "s">> >>,
     IsNot |-> << <<"i", "s">>, <<"n", "o", "t">> >>,
     In |-> << <<"i", "n">> >>,
     NotIn |-> << <<"n", "o", "t">>, <<"i", "n">> >>]

\* _PatchingASTWalker._get_op
_get_op(op) == [k \in 1..Len(_operators[op]) |-> Tok(_operators[op][k])]

\* _Call's _arg_sort_key: (lineno, col_offset) of the argument's own node,
\* or of its value when the argument is a keyword.
_arg_sort_key(n) ==
    IF tree[n].class = "keyword"
    THEN <<tree[tree[n].value].lineno, tree[tree[n].value].col_offset>>
    ELSE <<tree[n].lineno, tree[n].col_offset>>

KeyLess(a, b) == a[1] < b[1] \/ (a[1] = b[1] /\ a[2] < b[2])

\* sorted() that leaves the arguments as listed: positional, then keyword.
Unsorted(seq) == seq

\* sorted(seq, key=_arg_sort_key): stable, ascending.
sorted(seq) ==
    LET before(i, j) == \/ KeyLess(_arg_sort_key(seq[i]), _arg_sort_key(seq[j]))
                        \/ /\ ~KeyLess(_arg_sort_key(seq[j]), _arg_sort_key(seq[i]))
                           /\ i < j
        rank(i) == 1 + Cardinality({j \in 1..Len(seq) : before(j, i)})
    IN  [k \in 1..Len(seq) |-> seq[CHOOSE i \in 1..Len(seq) : rank(i) = k]]

-----------------------------------------------------------------------------
(* The spelling rules: what each _<Class> method passes to _handle         *)

Present(n) == n # NoNode

Opt(cond, seq) == IF cond THEN seq ELSE <<>>

RECURSIVE Flatten(_)
Flatten(seqs) == IF seqs = <<>> THEN <<>> ELSE Head(seqs) \o Flatten(Tail(seqs))

_Module(n) == Nodes(n.body)

_Expr(n) == <<Node(n.value)>>

_Assign(n) == _child_nodes(Nodes(n.targets), Tok(<<"=">>)) \o <<Tok(<<"=">>), Node(n.value)>>

_Name(n) == <<Tok(n.id)>>

_Constant(n) ==
    CASE n.value = "str" -> <<Marker("String")>>
      [] n.value \in {"True", "False", "None"} ->
            <<Tok(CASE n.value = "True" -> <<"T", "r", "u", "e">>
                    [] n.value = "False" -> <<"F", "a", "l", "s", "e">>
                    [] n.value = "None" -> <<"N", "o", "n", "e">>)>>
      [] n.value = "num" -> <<Marker("Number")>>
      [] n.value = "Ellipsis" -> <<Tok(<<".", ".", ".">>)>>

_BinOp(n) == <<Node(n.left)>> \o _get_op(n.op) \o <<Node(n.right)>>

_Call(n) ==
    <<Node(n.func), Tok(<<"(">>)>>
    \o _child_nodes(Nodes(sorted(n.args \o n.keywords)), Tok(<<",">>))
    \o <<Tok(<<")">>)>>

_keyword(n) ==
    IF n.arg = <<>> THEN <<Node(n.value)>>
    ELSE <<Tok(n.arg), Tok(<<"=">>), Node(n.value)>>

_Starred(n) == <<Node(n.value)>>

_Tuple(n) ==
    IF n.elts # <<>> THEN _child_nodes(Nodes(n.elts), Tok(<<",">>))
    ELSE <<Marker("empty_tuple")>>

_IfExp(n) ==
    <<Node(n.body), Tok(<<"i", "f">>), Node(n.test), Tok(<<"e", "l", "s", "e">>),
      Node(n.orelse)>>

_Pass(n) == <<Tok(<<"p", "a", "s", "s">>)>>

_Return(n) == <<Tok(<<"r", "e", "t", "u", "r", "n">>)>> \o Opt(Present(n.value), <<Node(n.value)>>)

\* _handle_with_node (is_async false)
_With(n) ==
    Flatten([k \in 1..Len(n.items) |->
        <<Marker("with_or_comma_context_manager"), Node(tree[n.items[k]].context_expr)>>
        \o Opt(Present(tree[n.items[k]].optional_vars),
               <<Tok(<<"a", "s">>), Node(tree[n.items[k]].optional_vars)>>)])
    \o <<Tok(<<":">>)>> \o Nodes(n.body)

\* codeanalyze.SourceLinesAdapter.get_line_start: the offset at which the
\* 1-based line starts.
RECURSIVE get_line_start(_)
get_line_start(lineno) ==
    IF lineno <= 1 THEN 0
    ELSE LET nl == Index(source, <<NL>>, get_line_start(lineno - 1))
         IN  IF nl = None THEN Len(source) + 1 ELSE nl + 1

\* The adapter keeps one start per line and one past the end of the text;
\* get_line_start of a later line is an IndexError.
LineKnown(lineno) ==
    lineno <= Cardinality({k \in DOMAIN source : source[k] = NL}) + 2

\* _is_elif(node): the word at the node's offset, or the word that ends one
\* character before it (slices as Python takes them, a negative bound
\* counting from the end of the text).
_is_elif(n) ==
    /\ n.class = "If"
    /\ <<"e", "l", "i", "f">> \in
            {Slice(source, get_line_start(n.lineno) + n.col_offset,
                           get_line_start(n.lineno) + n.col_offset + 4),
             Slice(source, get_line_start(n.lineno) + n.col_offset - 5,
                           get_line_start(n.lineno) + n.col_offset - 1)}

_If(n) ==
    <<IF _is_elif(n) THEN Tok(<<"e", "l", "i", "f">>) ELSE Tok(<<"i", "f">>)>>
    \o <<Node(n.test), Tok(<<":">>)>>
    \o Nodes(n.body)
    \o Opt(n.orelse # <<>>,
           Opt(~(Len(n.orelse) = 1 /\ _is_elif(tree[n.orelse[1]])),
               <<Tok(<<"e", "l", "s", "e">>), Tok(<<":">>)>>)
           \o Nodes(n.orelse))

\* The calls of _is_elif that _If makes ask for the start of a line the
\* adapter does not know.
IfLinesUnknown(n) ==
    \/ ~LineKnown(n.lineno)
    \/ /\ Len(n.orelse) = 1
       /\ tree[n.orelse[1]].class = "If"
       /\ ~LineKnown(tree[n.orelse[1]].lineno)

\* _handle_function_def_node (is_async false)
_FunctionDef(n) ==
    Flatten([k \in 1..Len(n.decorator_list) |-> <<Tok(<<"@">>), Node(n.decorator_list[k])>>])
    \o <<Tok(<<"d", "e", "f">>), Tok(n.name), Tok(<<"(">>), Node(n.args),
         Tok(<<")">>), Tok(<<":">>)>>
    \o Nodes(n.body)

\* _arguments with _add_args_to_children
_arguments(n) ==
    LET pad == Len(n.args) - Len(n.defaults)
        default(k) == IF k <= pad THEN NoNode ELSE n.defaults[k - pad]
    IN  Flatten([k \in 1..Len(n.args) |->
            Opt(k > 1, <<Tok(<<",">>)>>) \o <<Node(n.args[k])>>
            \o Opt(Present(default(k)), <<Tok(<<"=">>), Node(default(k))>>)])
        \o Opt(Present(n.vararg),
               Opt(n.args # <<>>, <<Tok(<<",">>)>>)
               \o <<Tok(<<"*">>), Tok(tree[n.vararg].arg)>>)
        \o Opt(Present(n.kwarg),
               Opt(n.args # <<>> \/ Present(n.vararg), <<Tok(<<",">>)>>)
               \o <<Tok(<<"*", "*">>), Tok(tree[n.kwarg].arg)>>)

_arg(n) == <<Tok(n.arg)>>

\* _FormattedValue: the parts of a format_spec are nodes or literal text.
FormatPart(v) ==
    IF tree[v].class = "FormattedValue" THEN Node(tree[v].value) ELSE Tok(tree[v].s)

_FormattedValue(n) ==
    <<Tok(<<"{">>), Node(n.value)>>
    \o Opt(Present(n.format_spec),
           <<Tok(<<":">>)>> \o [k \in DOMAIN tree[n.format_spec].values |->
                                    FormatPart(tree[n.format_spec].values[k])])
    \o <<Tok(<<"}">>)>>

\* _JoinedStr's QUOTE_CHARS (line 428)
QUOTE_CHARS == << <<"\"", "\"", "\"">>, <<"'", "'", "'">>, <<"\"">>, <<"'">> >>

\* str.find(q, start, end), with len(s) + 1 standing for the -1 of a quote
\* that does not occur (rfind finds a quote exactly when find does)
Find(s, q, start, end) ==
    Least({i \in start..(end - Len(q)) : StartsAt(s, q, i)} \cup {Len(s) + 1})

\* The quotes of QUOTE_CHARS that occur in source[start:end].
Quoted(s, start, end) ==
    {k \in DOMAIN QUOTE_CHARS : Find(s, QUOTE_CHARS[k], start, end) <= Len(s)}

\* start_quote_char (lines 410-417): min() takes the leftmost quote and, of
\* two at one place, the shorter; the text from start to its end.
StartQuote(s, start, end, found, pos) ==
    Slice(s, start, pos + Least({Len(QUOTE_CHARS[k]) :
        k \in {j \in found : Find(s, QUOTE_CHARS[j], start, end) = pos}}))

start_quote_char(s, start, end) ==
    StartQuote(s, start, end, Quoted(s, start, end),
               Least({Find(s, QUOTE_CHARS[k], start, end) : k \in Quoted(s, start, end)}))

\* end_quote_char (lines 419-426): max() takes the longest quote that occurs;
\* the text of that length before end.
end_quote_char(s, start, end) ==
    Slice(s, end - Greatest({Len(QUOTE_CHARS[k]) : k \in Quoted(s, start, end)}), end)

\* Lines 438-440: the parts of the literal that are FormattedValue nodes.
FormattedValues(n) ==
    Nodes(SelectSeq(n.values, LAMBDA part : tree[part].class = "FormattedValue"))

\* _JoinedStr: the children it passes to _handle (lines 436-442), start and
\* end being what consume_string returned.
_JoinedStr(n, s, start, end) ==
    <<Tok(start_quote_char(s, start, end))>>
    \o FormattedValues(n)
    \o <<Tok(end_quote_char(s, start, end))>>

\* The classes whose _<Class> method the model holds: getattr(self, "_" +
\* node.__class__.__name__, None) is not None exactly for these.
Methods == {"Module", "Expr", "Assign", "Name", "Constant", "BinOp", "Call",
            "keyword", "Starred", "Tuple", "IfExp", "Pass", "Return", "With",
            "FunctionDef", "arguments", "arg", "JoinedStr", "FormattedValue", "If"}

\* The base_children the class's method passes to _handle (for a JoinedStr
\* the nodes among them: its quotes are read from the text, see _JoinedStr).
Rule(n) ==
    CASE n.class = "Module" -> _Module(n)
      [] n.class = "Expr" -> _Expr(n)
      [] n.class = "Assign" -> _Assign(n)
      [] n.class = "Name" -> _Name(n)
      [] n.class = "Constant" -> _Constant(n)
      [] n.class = "BinOp" -> _BinOp(n)
      [] n.class = "Call" -> _Call(n)
      [] n.class = "keyword" -> _keyword(n)
      [] n.class = "Starred" -> _Starred(n)
      [] n.class = "Tuple" -> _Tuple(n)
      [] n.class = "IfExp" -> _IfExp(n)
      [] n.class = "Pass" -> _Pass(n)
      [] n.class = "Return" -> _Return(n)
      [] n.class = "With" -> _With(n)
      [] n.class = "FunctionDef" -> _FunctionDef(n)
      [] n.class = "arguments" -> _arguments(n)
      [] n.class = "arg" -> _arg(n)
      [] n.class = "FormattedValue" -> _FormattedValue(n)
      [] n.class = "JoinedStr" -> FormattedValues(n)
      [] n.class = "If" -> _If(n)

\* The eat_parens and eat_spaces arguments of the method's _handle call.
EatParens(n) == n.class = "Tuple" /\ n.elts # <<>>

EatSpaces(n) == n.class = "Module"

-----------------------------------------------------------------------------
(* _PatchingASTWalker: the traversal                                       *)

Root == 1

\* The walker and the attributes it sets, as one value the steps transform.
W == [offset |-> offset, stack |-> stack, region |-> region,
      sorted_children |-> sorted_children, warnings |-> warnings,
      children |-> children, err |-> ""]

\* sorted_children of a node: absent, or the list it holds.
NoChildren == [set |-> FALSE, items |-> <<>>]

Children(items) == [set |-> TRUE, items |-> items]

Top(st) == st[Len(st)]

Pop(st) == SubSeq(st, 1, Len(st) - 1)

SetTop(st, f) == [st EXCEPT ![Len(st)] = f]

\* The locals of one _handle activation (lines 106-112); restore and string
\* are the locals offset, start and end of _JoinedStr between its lines 430
\* and 434, when the activation is one of _JoinedStr.
Frame(n, base, off) ==
    [node |-> n, base_children |-> base, children |-> <<>>, formats |-> <<>>,
     suspected_start |-> off, start |-> off, first_token |-> TRUE,
     eat_parens |-> EatParens(tree[n]), eat_spaces |-> EatSpaces(tree[n]),
     offset |-> off, restore |-> None, string |-> NoRegion]

\* ast.get_children(node) of a node the walker has no method for: its field
\* values, of which a Nonlocal has one, the list of names.
get_children(n) == <<Value>>

\* __call__ on a node of unknown class (lines 87-94).
UnknownKeepsNoRegion(w, n) ==
    [w EXCEPT !.warnings = Append(@, [kind |-> "Unknown node type", node |-> n])]

unknown_node(w, n) ==
    [w EXCEPT !.warnings = Append(@, [kind |-> "Unknown node type", node |-> n]),
              !.region[n] = Region(w.offset, w.offset),
              !.sorted_children[n] = IF w.children THEN Children(get_children(n)) ELSE @]

\* _handle on a node that already has a region (lines 97-104).
HandleAgainRepatches(w, n) ==
    [w EXCEPT !.warnings = Append(@, [kind |-> "already patched", node |-> n]),
              !.region[n] = Region(w.offset, w.offset)]

already_patched(w, n) ==
    [w EXCEPT !.warnings = Append(@, [kind |-> "already patched", node |-> n])]

\* Lines 157-165: record the gap before the element and the element itself.
Resume(w, el, token_start) ==
    LET f == Top(w.stack)
        gap == Slice(source, f.offset, token_start)
        f1 == IF f.first_token
              THEN [f EXCEPT !.first_token = FALSE, !.start = token_start]
              ELSE [f EXCEPT !.formats = Append(@, gap),
                             !.children = IF w.children THEN Append(@, Text(gap)) ELSE @]
        f2 == [f1 EXCEPT !.children = IF w.children THEN Append(@, el) ELSE @]
    IN  [w EXCEPT !.stack = SetTop(@, f2)]

\* _find_next_statement_start over the children_stack st
_find_next_statement_start(st) ==
    LET stmts(k) == {i \in 1..Len(st[k].base_children) :
                        /\ st[k].base_children[i].t = "node"
                        /\ tree[st[k].base_children[i].id].stmt}
        frames == {k \in 1..Len(st) : stmts(k) # {}}
        child == tree[st[Greatest(frames)].base_children[Least(stmts(Greatest(frames)))].id]
    IN  IF frames = {} THEN Len(source)
        ELSE child.col_offset + get_line_start(child.lineno)

\* _JoinedStr up to line 433: consume_string has returned r, and the cursor
\* stands at the end of the literal; off is where it stood before.
LookedAhead(w, n, off, r) ==
    IF r.err # "" THEN [w EXCEPT !.err = r.err, !.offset = r.offset]
    ELSE [w EXCEPT !.offset = r.offset,
                   !.stack = Append(@, [Frame(n, <<>>, off) EXCEPT
                                            !.restore = off,
                                            !.string = Region(r.start, r.end)])]

look_ahead(w, n) ==
    LookedAhead(w, n, w.offset,
                _consume_pattern(source, w.offset, "String",
                                 _find_next_statement_start(w.stack)))

\* Does walker(node) start an activation that consumes from the text?
Enters(w, n) ==
    tree[n].class \in Methods /\ (tree[n].class = "JoinedStr" \/ ~w.region[n].set)

\* walker(node): __call__ (lines 83-94) up to the loop of _handle (line 113).
Call(w, n) ==
    IF tree[n].class \notin Methods THEN unknown_node(w, n)
    ELSE IF tree[n].class = "JoinedStr" THEN look_ahead(w, n)
    ELSE IF w.region[n].set THEN already_patched(w, n)
    ELSE IF tree[n].class = "If" /\ IfLinesUnknown(tree[n])
    THEN [w EXCEPT !.err = "IndexError"]
    ELSE [w EXCEPT !.stack = Append(@, Frame(n, Rule(tree[n]), w.offset))]

\* _JoinedStr from line 434, in the activation f: the cursor is put back to
\* where it stood before the literal, and _handle is called with the quotes
\* and the FormattedValue nodes.
Restored(w, f) ==
    IF w.region[f.node].set
    THEN IF Len(w.stack) = 1 THEN already_patched([w EXCEPT !.stack = Pop(@)], f.node)
         ELSE Resume(already_patched([w EXCEPT !.stack = Pop(@)], f.node),
                     Node(f.node), w.region[f.node].start)
    ELSE [w EXCEPT !.stack = SetTop(@, Frame(f.node,
            _JoinedStr(tree[f.node], source, f.string.start, f.string.end), f.restore))]

\* _JoinedStr without its line 434.
RestoresNothing(w) == Restored(w, Top(w.stack))

restore(w) == Restored([w EXCEPT !.offset = Top(w.stack).restore], Top(w.stack))

\* Lines 122-147: the elements _handle consumes by pattern, and the pattern.
UsesPattern(el) == el.t \in Patterns \/ (el.t = "tok" /\ el.s = <<"!", "=">>)

PatternOf(el) == IF el.t = "tok" THEN "!=" ELSE el.t

\* Lines 122-154: how _handle consumes an element that is not a node.
\* Line 149: the activation is one of a JoinedStr or a FormattedValue.
InJoinedString(n) == tree[n].class \in {"JoinedStr", "FormattedValue"}

consume_element(w, el) ==
    IF UsesPattern(el)
    THEN _consume_pattern(source, w.offset, PatternOf(el),
                          IF el.t = "String" THEN _find_next_statement_start(w.stack)
                          ELSE None)
    ELSE IF InJoinedString(Top(w.stack).node)
    THEN consume_joined_string(source, w.offset, el.s)
    ELSE consume(source, w.offset, el.s)

\* _count_needed_parens over one fragment, from index on: <<start, opens>>
RECURSIVE CountFrom(_, _, _, _)
CountFrom(child, index, start, opens) ==
    IF index >= Len(child) THEN <<start, opens>>
    ELSE LET c == child[index + 1]
             start1 == IF c = ")" /\ opens = 0 THEN start + 1 ELSE start
             opens1 == IF c = ")" /\ opens > 0 THEN opens - 1
                       ELSE IF c = "(" THEN opens + 1 ELSE opens
             nl == Index(child, <<NL>>, index)
         IN  IF c = "#" /\ nl = None THEN <<start1, opens1>>
             ELSE CountFrom(child, IF c = "#" THEN nl + 1 ELSE index + 1, start1, opens1)

\* _count_needed_parens(children): <<start, opens>>
RECURSIVE CountAll(_, _, _)
CountAll(formats, start, opens) ==
    IF formats = <<>> THEN <<start, opens>>
    ELSE LET child == Head(formats)
             counted == IF child = <<>> \/ child[1] \in {"'", "\""}
                        THEN <<start, opens>>
                        ELSE CountFrom(child, 0, start, opens)
         IN  CountAll(Tail(formats), counted[1], counted[2])

_count_needed_parens(formats) == CountAll(formats, 0, 0)

\* for i in range(closes): new_end = self.source.consume(")")[1]
RECURSIVE ConsumeCloses(_, _, _)
RECURSIVE NextClose(_, _)
NextClose(closes, r) == ConsumeCloses(r.offset, closes - 1, r)

ConsumeCloses(off, closes, last) ==
    IF closes = 0 \/ last.err # "" THEN last
    ELSE NextClose(closes, consume(source, off, <<")">>))

\* for i in range(opens): new_start = self.source.rfind_token("(", 0, new_start)
RECURSIVE FindOpens(_, _)
FindOpens(new_start, opens) ==
    IF opens = 0 THEN new_start
    ELSE FindOpens(rfind_token(source, <<"(">>, 0, new_start), opens - 1)

\* What the tail of _handle computes: the frame's children and start, the
\* cursor, and the exception if one was raised.
Tail0(f, w) ==
    [children |-> f.children, start |-> f.start, offset |-> w.offset,
     collect |-> w.children, err |-> ""]

\* Lines 189-199 of _handle_parens, given the last ")" consumed (last.end is
\* None when there was none to consume) and the new start found.
Parenthesized(t, last, new_start) ==
    LET ch1 == IF last.end # None /\ t.collect
               THEN Append(t.children, Text(Slice(source, t.offset, last.end)))
               ELSE t.children
        ch2 == IF new_start # t.start /\ t.collect
               THEN <<Text(Slice(source, new_start, t.start))>> \o ch1
               ELSE ch1
    IN  IF last.err # "" THEN [t EXCEPT !.err = last.err, !.offset = last.offset]
        ELSE [t EXCEPT !.children = ch2, !.start = new_start, !.offset = last.offset]

\* Lines 185-194, given opens, closes = counted (line 184).
Counted(t, counted) ==
    Parenthesized(t, ConsumeCloses(t.offset, counted[2], Raised("", t.offset)),
                  FindOpens(t.start, counted[1]))

\* _handle_parens(children, start, formats)
_handle_parens(t, formats) == Counted(t, _count_needed_parens(formats))

\* Lines 203-214 of _eat_surrounding_parens, given the index found and what
\* consume(")") does at the cursor.
Surrounded(t, index, close) ==
    LET ch1 == <<Text(<<"(">>), Text(Slice(source, index + 1, t.start))>> \o t.children
        ch2 == ch1 \o <<Text(Slice(source, t.offset, close.start)), Text(<<")">>)>>
    IN  IF index = None THEN t
        ELSE IF close.err # "" THEN [t EXCEPT !.err = close.err, !.offset = close.offset]
        ELSE [t EXCEPT !.children = IF t.collect THEN ch2 ELSE @,
                       !.start = index, !.offset = close.offset]

\* _eat_surrounding_parens(children, suspected_start, start)
_eat_surrounding_parens(t, suspected_start) ==
    Surrounded(t, rfind_token(source, <<"(">>, suspected_start, t.start),
               consume(source, t.offset, <<")">>))

\* Lines 170-176 of _handle, given end_spaces and what consuming it does.
Eaten(t, end_spaces, eaten) ==
    IF eaten.err # "" THEN [t EXCEPT !.err = eaten.err, !.offset = eaten.offset]
    ELSE [t EXCEPT !.children = IF t.collect
                                THEN <<Text(Slice(source, 0, t.start))>> \o @
                                     \o <<Text(end_spaces)>>
                                ELSE @,
                   !.start = 0, !.offset = eaten.offset]

EndSpaces(t, end_spaces) == Eaten(t, end_spaces, consume(source, t.offset, end_spaces))

\* Lines 169-176 of _handle: the Module takes the text around its statements.
eat_spaces(t) == EndSpaces(t, Slice(source, t.offset, None))

\* Lines 167-168 and 169 of _handle: the two optional steps of the tail.
IfEatParens(f, t) ==
    IF t.err = "" /\ f.eat_parens THEN _eat_surrounding_parens(t, f.suspected_start) ELSE t

IfEatSpaces(f, t) == IF t.err = "" /\ f.eat_spaces THEN eat_spaces(t) ELSE t

\* Lines 177-180 of _handle: the attributes set on the node, and the pop.
Patch(w, f, t) ==
    IF t.err # "" THEN [w EXCEPT !.err = t.err, !.offset = t.offset]
    ELSE [w EXCEPT !.offset = t.offset,
                   !.stack = Pop(@),
                   !.region[f.node] = Region(t.start, t.offset),
                   !.sorted_children[f.node] =
                        IF w.children THEN Children(t.children) ELSE @]

\* Lines 166-180 of _handle, for the activation f.
Finish(w, f) ==
    Patch(w, f, IfEatSpaces(f, IfEatParens(f, _handle_parens(Tail0(f, w), f.formats))))

\* Lines 166-180 of _handle, for the activation on top of the stack.
finish(w) == Finish(w, Top(w.stack))

\* write_ast(patched_ast_node).  Joining a field value that is no string is
\* a TypeError; WriteError marks it, and no source text contains it.
WriteError == <<"TypeError">>

RECURSIVE write_ast(_)
write_ast(n) ==
    Flatten([k \in 1..Len(sorted_children[n].items) |->
        LET child == sorted_children[n].items[k]
        IN  CASE child.t = "node" -> write_ast(child.id)
              [] child.t = "text" -> child.s
              [] OTHER -> WriteError])

-----------------------------------------------------------------------------
(* The calls a caller makes and the steps of the traversal                 *)

\* How many times patch_ast is called on one tree.
MaxCalls == 2

CR == "\r"

\* A character outside ASCII, and the two bytes UTF-8 encodes it as.
NonAscii == "U+00E9"

\* fscommands.unicode_to_file_data(source): the text encoded as UTF-8.
unicode_to_file_data(text) ==
    Flatten([k \in 1..Len(text) |->
        IF text[k] = NonAscii THEN <<"0xC3", "0xA9">> ELSE <<text[k]>>])

\* source.replace(b"\r\n", b"\n").replace(b"\r", b"\n") (line 12)
RECURSIVE replace_line_ends(_)
replace_line_ends(b) ==
    IF b = <<>> THEN <<>>
    ELSE IF Len(b) >= 2 /\ b[1] = CR /\ b[2] = NL
         THEN <<NL>> \o replace_line_ends(SubSeq(b, 3, Len(b)))
    ELSE IF b[1] = CR THEN <<NL>> \o replace_line_ends(Tail(b))
    ELSE <<b[1]>> \o replace_line_ends(Tail(b))

\* Lines 9-14 of parse: the bytes the parser is given.
normalize(input) ==
    LET data == IF input.str THEN unicode_to_file_data(input.data) ELSE input.data
        unix == IF \E k \in DOMAIN data : data[k] = CR
                THEN replace_line_ends(data) ELSE data
    IN  IF unix = <<>> \/ unix[Len(unix)] # NL THEN Append(unix, NL) ELSE unix

\* The ways a text may spell the end of a line other than "\n".
LineEnds == {<<CR, NL>>, <<CR>>}

\* The text with every "\n" spelt as ending.
WithLineEnds(text, ending) ==
    Flatten([k \in 1..Len(text) |-> IF text[k] = NL THEN ending ELSE <<text[k]>>])


\* The state a step leaves: the walker's value w, and how the call stands.
Walk(w) ==
    /\ offset' = w.offset
    /\ stack' = w.stack
    /\ region' = w.region
    /\ sorted_children' = w.sorted_children
    /\ warnings' = w.warnings
    /\ children' = w.children
    /\ error' = w.err
    /\ status' = IF w.err # "" THEN "raised"
                 ELSE IF w.stack = <<>> THEN "returned"
                 ELSE IF Top(w.stack).restore # None THEN "lookahead"
                 ELSE "walking"
    /\ UNCHANGED <<source, tree, parsed, baseline, recursive, visited>>

\* The activation on top of the stack, about to handle its next element
\* (lines 114-117).
NextElement(w) ==
    [w EXCEPT !.stack = SetTop(@, [Top(@) EXCEPT !.base_children = Tail(@),
                                                 !.offset = w.offset])]

\* patch_ast(node, source, sorted_children) on the tree's root.
PatchAst(sc) ==
    /\ status \in {"idle", "returned", "raised"}
    /\ calls < MaxCalls
    /\ calls' = calls + 1
    /\ IF region[Root].set
       THEN /\ status' = "returned"
            /\ error' = ""
            /\ ret' = [op |-> "patch_ast", node |-> Root, fresh |-> FALSE]
            /\ UNCHANGED <<source, tree, parsed, children, offset, stack, region,
                           sorted_children, warnings, baseline, recursive, visited>>
       ELSE /\ Walk(Call([W EXCEPT !.offset = 0, !.stack = <<>>, !.children = sc], Root))
            /\ ret' = [op |-> "patch_ast", node |-> Root, fresh |-> TRUE]

\* Lines 155-165 after the element el was consumed with result r, or the
\* exception leaving the call.
Consume(w0, el, r) ==
    /\ IF r.err # ""
       THEN Walk([w0 EXCEPT !.err = r.err, !.offset = r.offset])
       ELSE Walk(Resume([w0 EXCEPT !.offset = r.offset],
                        Text(Slice(source, r.start, r.end)), r.start))
    /\ ret' = [op |-> "consume", node |-> Top(stack).node, element |-> el,
               from |-> offset, result |-> r]

ConsumeNext(w0, el) == Consume(w0, el, consume_element(w0, el))

\* One turn of _handle's loop for an element that is not a node.
HandleToken ==
    /\ status = "walking"
    /\ Top(stack).base_children # <<>>
    /\ Head(Top(stack).base_children).t # "node"
    /\ ConsumeNext(NextElement(W), Head(Top(stack).base_children))
    /\ UNCHANGED <<calls, recursive, visited>>

\* Lines 119-120 and 157-165 for the nested node c, the walker being w0
\* before the call on c and w1 after it.
Called(w0, c, w1) ==
    /\ IF Enters(w0, c) THEN Walk(w1)
       ELSE Walk(Resume(w1, Node(c), w1.region[c].start))
    /\ ret' = [op |-> IF Enters(w0, c) THEN "enter"
                      ELSE IF tree[c].class \in Methods THEN "again"
                      ELSE "unknown",
               node |-> c, parent |-> Top(stack).node]

CallNext(w0, c) == Called(w0, c, Call(w0, c))

\* One turn of _handle's loop for a nested node: the walker is called on it.
\* A call that starts no activation returns at once and the loop goes on.
HandleNode ==
    /\ status = "walking"
    /\ Top(stack).base_children # <<>>
    /\ Head(Top(stack).base_children).t = "node"
    /\ CallNext(NextElement(W), Head(Top(stack).base_children).id)
    /\ UNCHANGED <<calls, recursive, visited>>

\* The activation of node n has ended and left the walker as w1: the
\* activation that called it goes on with lines 120 and 157-165.
Ended(n, w1) ==
    /\ IF w1.err # "" \/ w1.stack = <<>> THEN Walk(w1)
       ELSE Walk(Resume(w1, Node(n), w1.region[n].start))
    /\ ret' = [op |-> "finish", node |-> n]

\* The end of a _handle activation (lines 166-180) and, in the activation
\* that called it, the rest of that turn of the loop.
HandleEnd ==
    /\ status = "walking"
    /\ Top(stack).base_children = <<>>
    /\ Ended(Top(stack).node, finish(W))
    /\ UNCHANGED <<calls, recursive, visited>>

\* _JoinedStr after its consume_string call: line 434 puts the cursor back,
\* and the activation goes on into _handle.
JoinedStr ==
    /\ status = "lookahead"
    /\ Walk(restore(W))
    /\ ret' = [op |-> "restore", node |-> Top(stack).node, from |-> offset]
    /\ UNCHANGED <<calls, recursive, visited>>

\* get_patched_ast(source) up to its call of patch_ast (line 20), for the
\* text that spells the line ends of an already patched program as ending:
\* parse hands the parser the same bytes as for the "\n" text, so ast.parse
\* returns an equal tree, unpatched, and patch_ast is given that tree and the
\* text as the caller wrote it.  The regions of the "\n" text are kept.
GetPatchedAst(ending) ==
    /\ status = "returned"
    /\ parsed
    /\ baseline = <<>>
    /\ calls < MaxCalls
    /\ normalize([str |-> TRUE, data |-> WithLineEnds(source, ending)])
            = normalize([str |-> TRUE, data |-> source])
    /\ source' = WithLineEnds(source, ending)
    /\ baseline' = region
    /\ region' = [n \in 1..Len(tree) |-> NoRegion]
    /\ sorted_children' = [n \in 1..Len(tree) |-> NoChildren]
    /\ offset' = 0
    /\ stack' = <<>>
    /\ status' = "idle"
    /\ error' = ""
    /\ ret' = [op |-> "parse", ending |-> ending]
    /\ UNCHANGED <<tree, parsed, children, warnings, calls, recursive, visited>>

Init ==
    /\ \E p \in 1..Len(Corpus) :
        /\ source = Corpus[p].source
        /\ tree = Corpus[p].tree
        /\ parsed = Corpus[p].parsed
    /\ children = FALSE
    /\ offset = 0
    /\ stack = <<>>
    /\ region = [n \in 1..Len(tree) |-> NoRegion]
    /\ sorted_children = [n \in 1..Len(tree) |-> NoChildren]
    /\ warnings = <<>>
    /\ status = "idle"
    /\ error = ""
    /\ calls = 0
    /\ baseline = <<>>
    /\ recursive = FALSE
    /\ visited = <<>>
    /\ ret = [op |-> "none"]

Next ==
    \/ \E sc \in BOOLEAN : PatchAst(sc)
    \/ \E ending \in LineEnds : GetPatchedAst(ending)
    \/ HandleToken
    \/ HandleNode
    \/ HandleEnd
    \/ JoinedStr

Spec == Init /\ [][Next]_vars

-----------------------------------------------------------------------------
(* Properties of a patched tree                                            *)

\* patch_ast has returned from its first call on a tree of the parser.
Patched == status = "returned" /\ calls = 1 /\ parsed

RegionText(n) == Slice(source, region[n].start, region[n].end)

\* The nested nodes of a node's expected sequence, in the order consumed.
Nested(n) ==
    IF tree[n].class \in Methods
    THEN SelectSeq(Rule(tree[n]), LAMBDA el : el.t = "node")
    ELSE <<>>

\* The node has a region, and its offsets are numbers.
Numbers(n) == region[n].set /\ region[n].start # None /\ region[n].end # None

\* C1: with sorted_children collected, write_ast of every patched node is the
\* text of its region, and write_ast of the Module is the whole source
\* (stated for the traversals that emit no warning).
C1_RoundTrip ==
    Patched /\ children /\ warnings = <<>> =>
        /\ \A n \in DOMAIN tree : region[n].set => write_ast(n) = RegionText(n)
        /\ tree[Root].class = "Module" => write_ast(Root) = source

\* C2: after a completed traversal every region is a pair of integers with
\* 0 <= start <= end <= len(source).
C2_RegionBounds ==
    Patched =>
        \A n \in DOMAIN tree : region[n].set =>
            /\ region[n].start # None
            /\ region[n].end # None
            /\ 0 <= region[n].start
            /\ region[n].start <= region[n].end
            /\ region[n].end <= Len(source)

\* C3: the region of every nested node lies inside the region of the node
\* whose expected sequence holds it.
C3_Containment ==
    Patched =>
        \A n \in DOMAIN tree : \A k \in DOMAIN Nested(n) :
            LET c == Nested(n)[k].id
            IN  Numbers(n) /\ Numbers(c) =>
                    /\ region[c].start >= region[n].start
                    /\ region[c].end <= region[n].end

\* C4: the nested nodes of a node, in the order consumed, have regions that
\* do not overlap: each starts at or after the end of the one before.
C4_Ordering ==
    Patched =>
        \A n \in DOMAIN tree : \A k \in DOMAIN Nested(n) :
            k > 1 /\ Numbers(Nested(n)[k].id) /\ Numbers(Nested(n)[k - 1].id) =>
                region[Nested(n)[k].id].start >= region[Nested(n)[k - 1].id].end

\* C5: once patch_ast has returned for a tree of the parser, every node of
\* the tree has a region.
C5_EveryNodeHasRegion ==
    Patched => \A n \in DOMAIN tree : region[n].set

-----------------------------------------------------------------------------
(* Calls on a node that is already patched, or of unknown class             *)

\* The step was a call of the patch logic on a node that has a region:
\* patch_ast on a patched root, or _handle on a patched nested node.
Redundant(r) ==
    \/ r.op = "patch_ast" /\ ~r.fresh
    \/ r.op = "again"

\* C6 as stated: every redundant call leaves the node's region and
\* sorted_children as they were and emits exactly one diagnostic.
C6_DiagnosticPerRedundantCall ==
    [][Redundant(ret') =>
            /\ region'[ret'.node] = region[ret'.node]
            /\ sorted_children'[ret'.node] = sorted_children[ret'.node]
            /\ Len(warnings') = Len(warnings) + 1]_vars

\* C6: a redundant call changes no region and no sorted_children; _handle on
\* a patched nested node emits exactly one "already patched" warning, and
\* patch_ast on a patched root returns the node and emits none.
C6_Idempotent ==
    [][Redundant(ret') =>
            /\ region' = region
            /\ sorted_children' = sorted_children
            /\ ret'.op = "again" =>
                    warnings' = Append(warnings, [kind |-> "already patched",
                                                  node |-> ret'.node])
            /\ ret'.op = "patch_ast" => warnings' = warnings]_vars

\* patch_ast has returned a patched root at once, in a run in which _handle
\* had met a patched nested node before.
C6_Witness ==
    /\ ret.op = "patch_ast"
    /\ ~ret.fresh
    /\ region[Root].set
    /\ \E i \in DOMAIN warnings : warnings[i].kind = "already patched"

\* C9: the walker called on a node of a class it has no method for gives the
\* node the region (cursor, cursor) and emits one warning; the cursor does
\* not move, the activations on the stack and what they have left to consume
\* stay as they were, and the enclosing activation goes on with no exception.
C9_UnknownNode ==
    [][ret'.op = "unknown" =>
            /\ region'[ret'.node] = Region(offset, offset)
            /\ offset' = offset
            /\ warnings' = Append(warnings, [kind |-> "Unknown node type",
                                             node |-> ret'.node])
            /\ Len(stack') = Len(stack)
            /\ \A k \in DOMAIN stack :
                    /\ stack'[k].node = stack[k].node
                    /\ stack'[k].base_children =
                            IF k = Len(stack) THEN Tail(stack[k].base_children)
                            ELSE stack[k].base_children
            /\ status' = "walking"
            /\ error' = ""]_vars

\* The walker has just been called on a node of unknown class.
C9_Witness ==
    /\ ret.op = "unknown"
    /\ tree[ret.node].class \notin Methods
    /\ region[ret.node] = Region(offset, offset)
    /\ status = "walking"

-----------------------------------------------------------------------------
(* Tokens, comments and the scanner                                        *)

\* How Python reads the character at offset p of s: as "code", as part of a
\* "comment" (after a '#' that is not in a string literal, up to the end of
\* the line), or as part of a one-line string literal (the mode is its quote).
RECURSIVE ModeAt(_, _, _, _)
ModeAt(s, i, mode, p) ==
    IF i >= p THEN mode
    ELSE LET c == s[i + 1]
             next == IF c = NL THEN "code"
                     ELSE IF mode = "comment" THEN "comment"
                     ELSE IF mode = "code"
                          THEN IF c = "#" THEN "comment"
                               ELSE IF c \in {"'", "\""} THEN c
                               ELSE "code"
                     ELSE IF c = mode THEN "code"
                     ELSE mode
         IN  ModeAt(s, i + 1, next, p)

\* Offset p of s lies inside a line comment: after its '#', before its
\* newline.
InComment(s, p) == ModeAt(s, 0, "code", p) = "comment"

\* The offsets at or after the cursor where the token occurs.
Occurrences(s, token, from) ==
    {p \in from..(Len(s) - Len(token)) : StartsAt(s, token, p)}

\* The element is one that _handle hands to consume (line 154).
UsesConsume(el) == el.t = "tok" /\ el.s # <<"!", "=">>

\* C7: when the token consume is asked for occurs nowhere outside a line
\* comment at or after the cursor, consume raises MismatchedTokenError, and
\* that error is what leaves patch_ast.
C7_MismatchedToken ==
    /\ ret.op = "consume" /\ UsesConsume(ret.element)
       /\ ~InJoinedString(ret.node)
       /\ (\A p \in Occurrences(source, ret.element.s, ret.from) : InComment(source, p))
            => /\ ret.result.err = "MismatchedTokenError"
               /\ status = "raised"
               /\ error = "MismatchedTokenError"
    /\ error # "" <=> status = "raised"

\* consume has raised for a token that occurs after the cursor, but only
\* inside a comment.
C7_Witness ==
    /\ ret.op = "consume" /\ UsesConsume(ret.element)
    /\ ~InJoinedString(ret.node)
    /\ Occurrences(source, ret.element.s, ret.from) # {}
    /\ \A p \in Occurrences(source, ret.element.s, ret.from) : InComment(source, p)
    /\ ret.result.err = "MismatchedTokenError"
    /\ status = "raised"

-----------------------------------------------------------------------------
(* Line endings                                                            *)

\* C11: when get_patched_ast has returned for a text that differs from an
\* already patched text only in how it spells the ends of its lines ("\r\n"
\* or "\r" for "\n"), every node has the region the corresponding node of
\* the "\n" text was given.
C11_LineEndingsSameRegions ==
    status = "returned" /\ parsed /\ baseline # <<>> /\ ret.op # "parse" =>
        \A n \in DOMAIN tree : region[n] = baseline[n]


-----------------------------------------------------------------------------
(* The arguments of a call                                                 *)

\* (line, column) of the node itself.
Position(n) == <<tree[n].lineno, tree[n].col_offset>>

\* The elements between the "(" and the ")" of a Call's expected sequence.
Arguments(seq) == SubSeq(seq, 3, Len(seq) - 1)

\* The walker has just been called on a parsed program's Call node, whose
\* expected sequence is on top of the stack, nothing of it consumed.
EntersCall ==
    /\ ret.op = "enter"
    /\ parsed
    /\ status = "walking"
    /\ tree[ret.node].class = "Call"

\* C12: the expected sequence of every Call node is the callee, "(", the
\* positional and keyword arguments, each once, with "," between them, and
\* ")"; the arguments stand in increasing (line, column) of their own nodes.
C12_InterleavedArguments ==
    EntersCall =>
        LET c == tree[ret.node]
            seq == Top(stack).base_children
            arguments == Arguments(seq)
            count == Len(c.args) + Len(c.keywords)
        IN  /\ Top(stack).node = ret.node
            /\ Len(seq) >= 3
            /\ seq[1] = Node(c.func)
            /\ seq[2] = Tok(<<"(">>)
            /\ seq[Len(seq)] = Tok(<<")">>)
            /\ Len(arguments) = IF count = 0 THEN 0 ELSE 2 * count - 1
            /\ \A k \in DOMAIN arguments :
                IF k % 2 = 0 THEN arguments[k] = Tok(<<",">>)
                ELSE arguments[k].t = "node"
            /\ \A a \in {c.args[i] : i \in DOMAIN c.args}
                        \cup {c.keywords[i] : i \in DOMAIN c.keywords} :
                Cardinality({k \in DOMAIN arguments : arguments[k] = Node(a)}) = 1
            /\ \A k \in DOMAIN arguments :
                k % 2 = 1 /\ k + 2 <= Len(arguments) =>
                    KeyLess(Position(arguments[k].id), Position(arguments[k + 2].id))

\* The walker is called on a Call whose keyword argument is written before
\* one of its positional arguments, and lists them in the written order.
C12_Witness ==
    /\ EntersCall
    /\ \E i \in DOMAIN tree[ret.node].args, j \in DOMAIN tree[ret.node].keywords :
        /\ KeyLess(Position(tree[ret.node].keywords[j]), Position(tree[ret.node].args[i]))
        /\ \E k, l \in DOMAIN Top(stack).base_children :
            /\ k < l
            /\ Top(stack).base_children[k] = Node(tree[ret.node].keywords[j])
            /\ Top(stack).base_children[l] = Node(tree[ret.node].args[i])

-----------------------------------------------------------------------------
(* Parentheses around a tuple                                              *)

\* The offset of the ")" that closes a "(" when depth more "(" are open at
\* offset i of s, or None (for a text without comments and strings).
RECURSIVE MatchFrom(_, _, _)
MatchFrom(s, i, depth) ==
    IF i >= Len(s) THEN None
    ELSE IF s[i + 1] = ")"
         THEN IF depth = 0 THEN i ELSE MatchFrom(s, i + 1, depth - 1)
    ELSE IF s[i + 1] = "(" THEN MatchFrom(s, i + 1, depth + 1)
    ELSE MatchFrom(s, i + 1, depth)

\* The matched pairs of parentheses of s: <<offset of "(", offset of ")">>.
Pairs(s) ==
    {<<p, MatchFrom(s, p + 1, 0)>> :
        p \in {q \in 0..(Len(s) - 1) : s[q + 1] = "(" /\ MatchFrom(s, q + 1, 0) # None}}

\* The pairs that enclose every element of the tuple t.
Enclosing(t) ==
    {pr \in Pairs(source) :
        \A k \in DOMAIN tree[t].elts :
            /\ pr[1] < region[tree[t].elts[k]].start
            /\ pr[2] >= region[tree[t].elts[k]].end}

\* The node whose expected sequence holds the node c.
Parent(c) == CHOOSE n \in DOMAIN tree : \E k \in DOMAIN Nested(n) : Nested(n)[k].id = c

\* A patched tuple of two or more elements written inside two or more pairs
\* of parentheses, in a text without comments and strings.
NestedTuple(t) ==
    /\ Patched
    /\ tree[t].class = "Tuple"
    /\ Len(tree[t].elts) >= 2
    /\ \A k \in DOMAIN source : source[k] \notin {"#", "'", "\""}
    /\ Cardinality(Enclosing(t)) >= 2

\* The region of the tuple is exactly one of the pairs that enclose it.
OwnsOnePair(t) ==
    /\ Numbers(t)
    /\ <<region[t].start, region[t].end - 1>> \in Enclosing(t)
    /\ Cardinality({pr \in Enclosing(t) :
            region[t].start <= pr[1] /\ pr[2] < region[t].end}) = 1

\* Every other pair is outside the tuple's region.
OuterPairsOutside(t) ==
    \A pr \in Enclosing(t) \ {<<region[t].start, region[t].end - 1>>} :
        pr[1] < region[t].start /\ pr[2] >= region[t].end

\* Every other pair is inside the region of the node that holds the tuple.
OuterPairsInParent(t) ==
    \A pr \in Enclosing(t) \ {<<region[t].start, region[t].end - 1>>} :
        /\ Numbers(Parent(t))
        /\ region[Parent(t)].start <= pr[1]
        /\ pr[2] < region[Parent(t)].end

\* C13: the region of a non-empty tuple written inside several pairs of
\* parentheses, as in ((a, b)), takes in exactly one matched pair; every
\* further pair lies outside the tuple's region and inside the region of the
\* expression node that encloses the tuple.
C13_RedundantParens ==
    \A t \in DOMAIN tree : NestedTuple(t) =>
        /\ OwnsOnePair(t)
        /\ OuterPairsOutside(t)
        /\ OuterPairsInParent(t)

-----------------------------------------------------------------------------
(* Numeric literals                                                        *)

\* The characters a numeric literal of the language is written with.
LiteralChar(c) ==
    c \in {"0", "1", "2", "3", "4", "5", "6", "7", "8", "9", "_", ".",
           "a", "b", "c", "d", "e", "f", "j", "o", "x",
           "A", "B", "C", "D", "E", "F", "J", "O", "X"}

\* The offset at which the parser says the node starts.
StartOf(n) == get_line_start(tree[n].lineno) + tree[n].col_offset

\* The end of the run of literal characters of s that starts at offset i.
RECURSIVE LiteralEnd(_, _)
LiteralEnd(s, i) ==
    IF i < Len(s) /\ LiteralChar(s[i + 1]) THEN LiteralEnd(s, i + 1) ELSE i

\* A numeric literal node of a patched program.
NumericLiteral(n) ==
    /\ Patched
    /\ tree[n].class = "Constant"
    /\ tree[n].value = "num"

\* C14: the region of a numeric literal node covers exactly the literal as
\* written: 0x1F has the region text 0x1F, and 1_000 a region of exactly
\* five characters.
C14_LiteralFidelity ==
    \A n \in DOMAIN tree : NumericLiteral(n) =>
        /\ Numbers(n)
        /\ region[n].start = StartOf(n)
        /\ region[n].end = LiteralEnd(source, StartOf(n))

-----------------------------------------------------------------------------
(* The cursor                                                              *)

\* A traversal is under way.
Traversing == status \in {"walking", "lookahead"}

\* C16 as stated: from one step of a traversal to the next the cursor never
\* decreases.
C16_NeverDecreases == [][Traversing => offset' >= offset]_vars

\* C16: from one step of a traversal to the next the cursor never decreases,
\* but for _JoinedStr, which after its look ahead over the whole literal puts
\* the cursor back to where it stood before the literal, and no lower.
C16_CursorMonotone ==
    [][/\ status = "walking" => offset' >= offset
       /\ status = "lookahead" =>
            /\ offset' = Top(stack).restore
            /\ Top(stack).restore <= offset
            /\ Top(stack).restore = Top(stack).suspected_start]_vars

\* _JoinedStr has put the cursor back, to a place before the one it had
\* reached.
C16_Witness ==
    /\ ret.op = "restore"
    /\ offset < ret.from
    /\ status = "walking"

-----------------------------------------------------------------------------
(* if and elif                                                             *)

Elif == <<"e", "l", "i", "f">>

\* The node is an If and the text at its own start offset reads "elif".
SpelledElif(n) ==
    tree[n].class = "If" /\ Slice(source, StartOf(n), StartOf(n) + 4) = Elif

\* The walker has started an activation on an If node.
EntersIf ==
    /\ ret.op = "enter"
    /\ tree[ret.node].class = "If"
    /\ status = "walking"
    /\ Top(stack).node = ret.node

HasElse(seq) == \E k \in DOMAIN seq : seq[k] = Tok(<<"e", "l", "s", "e">>)

\* C20: the first token of an If node is "elif" exactly when the four
\* characters of the text at the node's own start offset are "elif", and
\* "if" otherwise; an If with an else-branch leaves out the tokens "else"
\* and ":" exactly when the branch is a single If node that reads "elif".
C20_ElifRule ==
    EntersIf =>
        /\ Head(Top(stack).base_children) =
                Tok(IF SpelledElif(ret.node) THEN Elif ELSE <<"i", "f">>)
        /\ tree[ret.node].orelse # <<>> =>
                (~HasElse(Top(stack).base_children) <=>
                    /\ Len(tree[ret.node].orelse) = 1
                    /\ SpelledElif(tree[ret.node].orelse[1]))

-----------------------------------------------------------------------------
(* The scanner driven over every short text                                *)

\* The longest text scanned.
MaxLen == 4

\* The characters that decide what _good_token and _skip_comment do.
Alphabet == {"(", ")", "#", NL}

RECURSIVE Texts(_)
Texts(n) ==
    IF n = 0 THEN {<<>>}
    ELSE Texts(n - 1) \cup
         {Append(t, c) : t \in {x \in Texts(n - 1) : Len(x) = n - 1}, c \in Alphabet}

\* Longer texts: a match of the empty-tuple pattern inside a comment with one
\* after it, and parentheses on both sides of a comment.
Samples ==
    {<<"#", "(", ")", NL, "(", ")">>,
     <<"(", "#", "(", NL, ")">>,
     <<"(", NL, "#", ")", NL, ")">>}

\* The offsets a _handle activation keeps for its searches (lines 110-112).
Marks(off) == [suspected_start |-> off, start |-> off, first_token |-> TRUE]

\* Line 163: the start of the first token consumed is the activation's start.
Started(f, token_start) ==
    IF f.first_token THEN [f EXCEPT !.first_token = FALSE, !.start = token_start]
    ELSE f

\* What a scanning step leaves, given the result r of the consuming call.
Scanned(r) ==
    /\ offset' = r.offset
    /\ error' = r.err
    /\ status' = IF r.err # "" THEN "raised" ELSE "walking"
    /\ stack' = IF r.err # "" THEN stack ELSE <<Started(Top(stack), r.start)>>
    /\ UNCHANGED <<source, tree, parsed, children, region, sorted_children,
                   warnings, calls, baseline, recursive, visited>>

\* A _handle activation starts at the cursor (lines 110-112).
ScanEnter ==
    /\ status = "walking"
    /\ stack' = <<Marks(offset)>>
    /\ ret' = [op |-> "enter"]
    /\ UNCHANGED <<source, tree, parsed, children, offset, region,
                   sorted_children, warnings, status, error, calls, baseline, recursive, visited>>

\* self.source.consume(token)
ScanConsume(token) ==
    /\ status = "walking"
    /\ Scanned(consume(source, offset, token))
    /\ ret' = [op |-> "consume", element |-> Tok(token), from |-> offset,
               result |-> consume(source, offset, token)]

\* self.source.consume_empty_tuple()
ScanPattern ==
    /\ status = "walking"
    /\ Scanned(_consume_pattern(source, offset, "empty_tuple", None))
    /\ ret' = [op |-> "pattern", element |-> Marker("empty_tuple"), from |-> offset,
               result |-> _consume_pattern(source, offset, "empty_tuple", None)]

\* self.source.rfind_token("(", lower, start), with the lower bound 0 of
\* _handle_parens (line 194) or the suspected_start of
\* _eat_surrounding_parens (line 202); the index found is the new start.
ScanRfind(from_start) ==
    /\ status = "walking"
    /\ LET f == Top(stack)
           lower == IF from_start THEN 0 ELSE f.suspected_start
           index == rfind_token(source, <<"(">>, lower, f.start)
       IN  /\ stack' = <<[f EXCEPT !.start = IF from_start \/ index # None
                                             THEN index ELSE @]>>
           /\ ret' = [op |-> "rfind", lower |-> lower, upper |-> f.start,
                      index |-> index]
    /\ UNCHANGED <<source, tree, parsed, children, offset, region,
                   sorted_children, warnings, status, error, calls, baseline, recursive, visited>>

ScanInit ==
    /\ source \in Texts(MaxLen) \cup Samples
    /\ tree = <<>>
    /\ parsed = FALSE
    /\ children = FALSE
    /\ offset = 0
    /\ stack = <<Marks(0)>>
    /\ region = <<>>
    /\ sorted_children = <<>>
    /\ warnings = <<>>
    /\ status = "walking"
    /\ error = ""
    /\ calls = 0
    /\ baseline = <<>>
    /\ recursive = FALSE
    /\ visited = <<>>
    /\ ret = [op |-> "none"]

ScanNext ==
    \/ ScanEnter
    \/ \E token \in {<<"(">>, <<")">>} : ScanConsume(token)
    \/ ScanPattern
    \/ \E from_start \in BOOLEAN : ScanRfind(from_start)

ScanSpec == ScanInit /\ [][ScanNext]_vars

\* The offsets of s, from lo up to hi, where the token occurs outside
\* comments.
Eligible(s, token, lo, hi) ==
    {p \in lo..(hi - Len(token)) : StartsAt(s, token, p) /\ ~InComment(s, p)}

\* C8: the position consume, pattern consumption and rfind_token return is
\* never inside a line comment: consume returns the first occurrence at or
\* after the cursor that is outside comments, having passed over the ones
\* inside, and rfind_token the last one outside comments in its range.
C8_NeverInComment ==
    /\ ret.op \in {"consume", "pattern"} /\ ret.result.err = "" =>
            ~InComment(source, ret.result.start)
    /\ ret.op = "consume" /\ ret.result.err = "" =>
            ret.result.start = Least(Eligible(source, ret.element.s, ret.from, Len(source)))
    /\ ret.op = "rfind" /\ ret.index # None =>
            /\ ~InComment(source, ret.index)
            /\ ret.index \in Eligible(source, <<"(">>, ret.lower, Bound(ret.upper, Len(source), Len(source)))

\* consume has passed over an occurrence inside a comment and returned one
\* after it.
C8_Witness ==
    /\ ret.op = "consume"
    /\ ret.result.err = ""
    /\ \E p \in Occurrences(source, ret.element.s, ret.from) :
            p < ret.result.start /\ InComment(source, p)

\* The offsets at or after the cursor where the pattern matches outside
\* comments.
EligibleMatches(pattern, s, from) ==
    {p \in from..Len(s) : MatchAt(pattern, s, p, Len(s)) # None /\ ~InComment(s, p)}

\* C17: when the pattern has no eligible match between the cursor and the
\* bound, pattern consumption fails as exact consume does: with
\* MismatchedTokenError and no other kind of error.
C17_PatternMismatch ==
    ret.op = "pattern" /\ EligibleMatches(ret.element.t, source, ret.from) = {} =>
        /\ ret.result.err = "MismatchedTokenError"
        /\ status = "raised"
        /\ error = "MismatchedTokenError"

-----------------------------------------------------------------------------
(* Sentinels                                                               *)

\* The sentinels whose alternatives are two words, the preferred one first.
Sentinels == {"semicolon_or_as_in_except", "exec_in_or_comma",
              "with_or_comma_context_manager"}

\* The offsets at or after from where the text t stands outside comments.
Forward(s, t, from) == Eligible(s, t, from, Len(s))

\* _handle has consumed a sentinel.
SentinelConsumed ==
    /\ ret.op = "consume"
    /\ ret.element.t \in Sentinels
    /\ ret.result.err = ""

\* The text the last consuming step matched.
MatchedText == Slice(source, ret.result.start, ret.result.end)

\* C18 as stated: the scanner consumes the first alternative, in priority
\* order, that occurs anywhere forward of the cursor, and a later alternative
\* only when no earlier one occurs.
C18_HighestPriorityAnywhere ==
    SentinelConsumed =>
        MatchedText = Alternatives(ret.element.t)[
            Least({k \in DOMAIN Alternatives(ret.element.t) :
                    Forward(source, Alternatives(ret.element.t)[k], ret.from) # {}})]

\* C18: the scanner consumes the match of the sentinel's pattern that starts
\* leftmost at or after the cursor and outside comments, whichever
\* alternative it is; the order of the alternatives decides only between
\* alternatives that match at that same offset.
C18_LeftmostMatch ==
    SentinelConsumed =>
        /\ ret.result.start = Least(UNION {Forward(source, Alternatives(ret.element.t)[k], ret.from) :
                                            k \in DOMAIN Alternatives(ret.element.t)})
        /\ MatchedText = Alternatives(ret.element.t)[
            Least({k \in DOMAIN Alternatives(ret.element.t) :
                    StartsAt(source, Alternatives(ret.element.t)[k], ret.result.start)})]
        /\ offset = ret.result.end

\* The scanner has consumed the "," at the cursor although "with", the
\* preferred alternative, occurs further on.
C18_Witness ==
    /\ SentinelConsumed
    /\ MatchedText = <<",">>
    /\ \E p \in Forward(source, <<"w", "i", "t", "h">>, ret.from) : p > ret.result.start

-----------------------------------------------------------------------------
(* The loops of the scanner, one pass at a time, and the end of a patch    *)

\* What a pass that rejected its match leaves: no result yet, and the cursor
\* the next pass searches from.
Again(off) == [err |-> "", start |-> None, end |-> None, offset |-> off]

GoesOn(r) == r.err = "" /\ r.start = None

\* A pass that rejects a match and leaves the cursor where it was.
StaysAtCursor(s, off, kind) == Again(off)

\* Lines 923 and 1016: the match was inside a comment and _skip_comment moves
\* the cursor; its ValueError leaves the call as an error of the given kind.
Rejected(s, off, kind) ==
    IF _skip_comment(s, off) = None THEN Raised(kind, off)
    ELSE Again(_skip_comment(s, off))

\* One pass of the loop of consume (lines 918-926), new_offset being
\* source.index(token, offset) or None for its ValueError.
ConsumePass(s, off, token, new_offset) ==
    IF new_offset = None THEN Raised("MismatchedTokenError", off)
    ELSE IF _good_token(s, new_offset, off)
         THEN Consumed(new_offset, new_offset + Len(token))
    ELSE Rejected(s, off, "MismatchedTokenError")

\* One pass of the loop of _consume_pattern (lines 1009-1016), match being
\* what the search of line 1012 returned.
PatternPass(s, off, match) ==
    IF match.start = None THEN Raised("AttributeError", off)
    ELSE IF _good_token(s, match.start, off) THEN Consumed(match.start, match.end)
    ELSE Rejected(s, off, "ValueError")

\* The locals of a call of one of the three loops: the range rfind_token was
\* called with, its running upper bound end, and what the call has done.
Locals(call, token, from, start, end) ==
    [call |-> call, token |-> token, from |-> from, start |-> start,
     upper |-> end, end |-> end, index |-> start, rejected |-> 0]

\* One pass of the loop of rfind_token (lines 1026-1034), index being
\* source.rindex(token, start, end) or None for its ValueError; done tells
\* whether the call returns.
RfindPass(s, l, index) ==
    IF index = None THEN [done |-> TRUE, locals |-> [l EXCEPT !.index = None]]
    ELSE IF _good_token(s, index, l.start)
         THEN [done |-> TRUE, locals |-> [l EXCEPT !.index = index]]
    ELSE [done |-> FALSE,
          locals |-> [l EXCEPT !.index = index, !.end = index, !.rejected = @ + 1]]

Loops == {"consume", "_consume_pattern", "rfind_token"}

\* The scanner is called: consume on a parenthesis, consume_empty_tuple, or
\* rfind_token("(", start, end) below the cursor or below the end of the
\* buffer (an end of None).
LoopCall(call, token, start, end) ==
    /\ status = "ready"
    /\ status' = call
    /\ stack' = <<Locals(call, token, offset, start, end)>>
    /\ ret' = [op |-> "call", call |-> call]
    /\ UNCHANGED <<source, tree, parsed, children, offset, region,
                   sorted_children, warnings, error, calls, baseline, recursive, visited>>

\* What a pass of consume or _consume_pattern with result r leaves.
Passed(l, r) ==
    /\ offset' = r.offset
    /\ error' = r.err
    /\ status' = IF r.err # "" THEN "failed" ELSE IF GoesOn(r) THEN status ELSE "ready"
    /\ stack' = <<[l EXCEPT !.rejected = IF GoesOn(r) THEN @ + 1 ELSE @]>>
    /\ ret' = [op |-> "pass", call |-> l.call, token |-> l.token, from |-> l.from,
               result |-> r]
    /\ UNCHANGED <<source, tree, parsed, children, region, sorted_children,
                   warnings, calls, baseline, recursive, visited>>

ConsumeLoop ==
    /\ status = "consume"
    /\ \E r \in {ConsumePass(source, offset, Top(stack).token,
                              Index(source, Top(stack).token, offset))} :
            Passed(Top(stack), r)

ConsumePatternLoop ==
    /\ status = "_consume_pattern"
    /\ \E match \in {Search("empty_tuple", source, offset, Len(source))} :
       \E r \in {PatternPass(source, offset, match)} :
            Passed(Top(stack), r)

\* What a pass of rfind_token leaves.
Returned(l, p) ==
    /\ stack' = <<p.locals>>
    /\ status' = IF p.done THEN "ready" ELSE status
    /\ ret' = [op |-> "pass", call |-> l.call, token |-> l.token, from |-> l.from,
               result |-> p]
    /\ UNCHANGED <<source, tree, parsed, children, offset, region,
                   sorted_children, warnings, error, calls, baseline, recursive, visited>>

RfindLoop ==
    /\ status = "rfind_token"
    /\ \E p \in {RfindPass(source, Top(stack),
                    RIndex(source, Top(stack).token, Top(stack).start, Top(stack).end))} :
            Returned(Top(stack), p)

\* The longest text the loops are run on, the samples apart.
MaxLoopLen == 3

LoopInit ==
    /\ source \in Texts(MaxLoopLen) \cup Samples
    /\ tree = <<>>
    /\ parsed = FALSE
    /\ children = FALSE
    /\ offset = 0
    /\ stack = <<>>
    /\ region = <<>>
    /\ sorted_children = <<>>
    /\ warnings = <<>>
    /\ status = "ready"
    /\ error = ""
    /\ calls = 0
    /\ baseline = <<>>
    /\ recursive = FALSE
    /\ visited = <<>>
    /\ ret = [op |-> "none"]

LoopPass == ConsumeLoop \/ ConsumePatternLoop \/ RfindLoop

LoopNext ==
    \/ \E token \in {<<"(">>, <<")">>} : LoopCall("consume", token, None, None)
    \/ LoopCall("_consume_pattern", <<>>, None, None)
    \/ \E start \in 0..offset, end \in {offset, None} :
            LoopCall("rfind_token", <<"(">>, start, end)
    \/ LoopPass

\* One turn of the walker inside a call of patch_ast.
Turn == HandleToken \/ HandleNode \/ HandleEnd \/ JoinedStr

\* Inside a call of patch_ast the next turn is taken: weak fairness of Turn,
\* written out, a turn being enabled exactly while the call is under way
\* (the guards of the four turns cover the walking and the looking ahead).
TurnFair == []<>(~Traversing) \/ []<><<Turn>>_vars

\* The walker on the programs and the three loops on the short texts.  The
\* code is sequential: inside a call of patch_ast the next turn is taken, and
\* inside a loop the next pass; nothing makes a caller call.
LiveInit == Init \/ LoopInit

LiveNext == Next \/ LoopNext

LiveSpec == LiveInit /\ [][LiveNext]_vars /\ TurnFair /\ WF_vars(LoopPass)

\* A call of consume or _consume_pattern is under way.
Consuming == status \in {"consume", "_consume_pattern"}

\* The upper bound rfind_token searches below.
Upper(st) == Bound(Top(st).end, Len(source), Len(source))

\* The nodes no activation has started on.
Unentered(st, rg) ==
    Cardinality({n \in DOMAIN rg : ~rg[n].set /\ \A k \in DOMAIN st : st[k].node # n})

\* The activations that have yet to put the cursor back and list their
\* children.
Suspended(st) == Cardinality({k \in DOMAIN st : st[k].restore # None})

\* The work the activations under way have left: their elements not yet
\* handled and their own ends.
RECURSIVE Pending(_)
Pending(st) ==
    IF st = <<>> THEN 0
    ELSE Len(Head(st).base_children) + 1 + Pending(Tail(st))

\* What a call of patch_ast has left to do, the first component weighing
\* most.
Variant == <<Unentered(stack, region), Suspended(stack), Pending(stack)>>

Less(a, b) ==
    \/ a[1] < b[1]
    \/ a[1] = b[1] /\ a[2] < b[2]
    \/ a[1] = b[1] /\ a[2] = b[2] /\ a[3] < b[3]

\* A call of a loop that has ended has ended as the scanner of the walker
\* computes it.
LoopAgrees ==
    status \in {"ready", "failed"} /\ ret.op = "pass" =>
            CASE ret.call = "consume" ->
                    ret.result = consume(source, ret.from, ret.token)
              [] ret.call = "_consume_pattern" ->
                    ret.result = _consume_pattern(source, ret.from, "empty_tuple", None)
              [] ret.call = "rfind_token" ->
                    Top(stack).index = rfind_token(source, ret.token, Top(stack).start,
                                                   Top(stack).upper)

\* C19: a call of patch_ast eventually finishes, returning or raising; so
\* does every call of consume, _consume_pattern and rfind_token.  A pass of
\* consume or _consume_pattern that rejects its match leaves the cursor
\* strictly further on, and a pass of rfind_token that rejects its match
\* leaves a strictly lower upper bound.  The call ends as the scanner of the
\* walker computes it, and every turn of the walker that does not end the
\* call of patch_ast leaves it less to do.
C19_Termination ==
    /\ Traversing ~> (status \in {"returned", "raised"})
    /\ [][Traversing /\ Traversing' => Less(Variant', Variant)]_vars
    /\ (status \in Loops) ~> (status \in {"ready", "failed"})
    /\ [][Consuming /\ status' = status
            => offset < offset']_vars
    /\ [][status = "rfind_token" /\ status' = status
            => Upper(stack)' < Upper(stack)]_vars
    /\ [][LoopAgrees']_vars

\* A call of consume has returned a match after passing over one inside a
\* comment.
C19_Witness ==
    /\ status = "ready"
    /\ ret.op = "pass"
    /\ ret.call = "consume"
    /\ Top(stack).rejected > 0
    /\ offset > ret.from

-----------------------------------------------------------------------------
(* rope.base.ast.parse: the parser adapter                                 *)

\* The longest text handed to parse.
MaxText == 2

\* The texts and byte strings a caller may pass.
Inputs ==
    {[str |-> TRUE, data |-> t] :
        t \in UNION {[1..n -> {"a", NonAscii, CR, NL}] : n \in 0..MaxText}}
    \cup {[str |-> FALSE, data |-> t] :
        t \in UNION {[1..n -> {"a", CR, NL}] : n \in 0..MaxText}}

Filenames == {<<"<string>">>, <<"mod.py">>}

NoException == [type |-> "", lineno |-> 0, filename |-> <<>>, msg |-> ""]

\* What ast.parse(source, filename="<unknown>") may do with the bytes: return
\* a tree, or raise a SyntaxError that names a line of the bytes and the
\* filename it was given (or, for bytes it rejects before reading them, no
\* line and no filename), or raise a ValueError or a TypeError.
ast_parse(b, filename) ==
    {NoException}
    \cup {[type |-> "SyntaxError", lineno |-> l, filename |-> filename,
           msg |-> "invalid syntax"] :
            l \in 1..Cardinality({k \in DOMAIN b : b[k] = NL})}
    \cup {[type |-> "SyntaxError", lineno |-> None, filename |-> <<>>,
           msg |-> "source code string cannot contain null bytes"]}
    \cup {[type |-> "ValueError", lineno |-> 0, filename |-> <<>>,
           msg |-> "source code string cannot contain null bytes"],
          [type |-> "TypeError", lineno |-> 0, filename |-> <<>>,
           msg |-> "compile() arg 1 must be a string, bytes or AST object"]}

\* Lines 15-22: the exception that leaves parse when ast.parse raised e.
ReportsParserFilename(e, filename) ==
    [type |-> "SyntaxError", lineno |-> 1, filename |-> <<"<unknown>">>, msg |-> e.msg]

reraise(e, filename) ==
    IF e.type \in {"TypeError", "ValueError"}
    THEN [type |-> "SyntaxError", lineno |-> 1, filename |-> filename, msg |-> e.msg]
    ELSE e

\* parse(source, filename)
Parse(input, filename) ==
    /\ calls < MaxCalls
    /\ calls' = calls + 1
    /\ source' = normalize(input)
    /\ \E e \in ast_parse(normalize(input), <<"<unknown>">>) :
        /\ ret' = [op |-> "parse", input |-> input, filename |-> filename,
                   parser |-> e, raised |-> reraise(e, filename)]
        /\ error' = reraise(e, filename).type
        /\ status' = IF e = NoException THEN "returned" ELSE "raised"
    /\ UNCHANGED <<tree, parsed, children, offset, stack, region,
                   sorted_children, warnings, baseline, recursive, visited>>

ParseInit ==
    /\ source = <<>>
    /\ tree = <<>>
    /\ parsed = FALSE
    /\ children = FALSE
    /\ offset = 0
    /\ stack = <<>>
    /\ region = <<>>
    /\ sorted_children = <<>>
    /\ warnings = <<>>
    /\ status = "idle"
    /\ error = ""
    /\ calls = 0
    /\ baseline = <<>>
    /\ recursive = FALSE
    /\ visited = <<>>
    /\ ret = [op |-> "none"]

ParseNext == \E input \in Inputs, filename \in Filenames : Parse(input, filename)

ParseSpec == ParseInit /\ [][ParseNext]_vars

\* C10 as stated: whenever the parser rejects the input, parse raises a
\* SyntaxError with lineno 1, the caller's filename and the parser's message.
C10_EveryRejectionIsLineOne ==
    ret.op = "parse" /\ ret.parser # NoException =>
        /\ ret.raised.type = "SyntaxError"
        /\ ret.raised.lineno = 1
        /\ ret.raised.filename = ret.filename
        /\ ret.raised.msg = ret.parser.msg

\* C10: when the parser raises a TypeError or a ValueError, parse raises a
\* SyntaxError with lineno 1, the caller's filename and the parser's message;
\* a SyntaxError of the parser leaves parse as the parser raised it, with the
\* parser's own line number and filename.
C10_ParseFailure ==
    ret.op = "parse" /\ ret.parser # NoException =>
        /\ status = "raised"
        /\ error = "SyntaxError"
        /\ ret.parser.type \in {"TypeError", "ValueError"} =>
                /\ ret.raised.type = "SyntaxError"
                /\ ret.raised.lineno = 1
                /\ ret.raised.filename = ret.filename
                /\ ret.raised.msg = ret.parser.msg
        /\ ret.parser.type = "SyntaxError" => ret.raised = ret.parser

\* The parser has raised a ValueError and parse a SyntaxError for line 1 of
\* the caller's file.
C10_Witness ==
    /\ ret.op = "parse"
    /\ ret.parser.type = "ValueError"
    /\ ret.raised.type = "SyntaxError"
    /\ ret.raised.lineno = 1
    /\ ret.raised.filename = ret.filename
    /\ status = "raised"

-----------------------------------------------------------------------------
(* rope.base.ast.call_for_nodes and get_child_nodes                        *)

\* The value of a field of a node: a node, a list (of nodes, or NoNode for
\* an entry that is no node), or anything else (a string, a number, None).
Child(i) == [kind |-> "node", id |-> i, items |-> <<>>]

List(items) == [kind |-> "list", id |-> NoNode, items |-> items]

Other == [kind |-> "other", id |-> NoNode, items |-> <<>>]

\* ast.parse('a + b\n'): Module(body, type_ignores); Expr(value); BinOp(left, op, right); Name(id, ctx); Load(); Add()
Tree1 == <<
        [class |-> "Module", _fields |-> <<List(<<2>>), List(<<>>)>>],
        [class |-> "Expr", _fields |-> <<Child(3)>>],
        [class |-> "BinOp", _fields |-> <<Child(4), Child(6), Child(7)>>],
        [class |-> "Name", _fields |-> <<Other, Child(5)>>],
        [class |-> "Load", _fields |-> <<>>],
        [class |-> "Add", _fields |-> <<>>],
        [class |-> "Name", _fields |-> <<Other, Child(5)>>]
    >>

\* ast.parse('f(a, b=2)\n'): Module(body, type_ignores); Expr(value); Call(func, args, keywords); Name(id, ctx); Load(); keyword(arg, value); Constant(value, kind)
Tree2 == <<
        [class |-> "Module", _fields |-> <<List(<<2>>), List(<<>>)>>],
        [class |-> "Expr", _fields |-> <<Child(3)>>],
        [class |-> "Call", _fields |-> <<Child(4), List(<<6>>), List(<<7>>)>>],
        [class |-> "Name", _fields |-> <<Other, Child(5)>>],
        [class |-> "Load", _fields |-> <<>>],
        [class |-> "Name", _fields |-> <<Other, Child(5)>>],
        [class |-> "keyword", _fields |-> <<Other, Child(8)>>],
        [class |-> "Constant", _fields |-> <<Other, Other>>]
    >>

\* ast.parse('nonlocal a\n'): Module(body, type_ignores); Nonlocal(names)
Tree3 == <<
        [class |-> "Module", _fields |-> <<List(<<2>>), List(<<>>)>>],
        [class |-> "Nonlocal", _fields |-> <<List(<<NoNode>>)>>]
    >>

\* ast.parse('x = ()\n'): Module(body, type_ignores); Assign(targets, value, type_comment); Name(id, ctx); Store(); Tuple(elts, ctx); Load()
Tree4 == <<
        [class |-> "Module", _fields |-> <<List(<<2>>), List(<<>>)>>],
        [class |-> "Assign", _fields |-> <<List(<<3>>), Child(5), Other>>],
        [class |-> "Name", _fields |-> <<Other, Child(4)>>],
        [class |-> "Store", _fields |-> <<>>],
        [class |-> "Tuple", _fields |-> <<List(<<>>), Child(6)>>],
        [class |-> "Load", _fields |-> <<>>]
    >>

\* The trees call_for_nodes is called on.
Forest == <<Tree1, Tree2, Tree3, Tree4>>

\* What a callback may return, and Python's `not result`.
Results == {"True", "False", "None"}

Falsy(result) == result \in {"False", "None"}

\* The nodes a field value adds to get_child_nodes' result (lines 41-47).
FieldNodes(child) ==
    IF child.kind = "list" THEN SelectSeq(child.items, LAMBDA entry : entry # NoNode)
    ELSE IF child.kind = "node" THEN <<child.id>>
    ELSE <<>>

\* get_child_nodes(node)
get_child_nodes(n) ==
    IF tree[n].class = "Module" THEN tree[n]._fields[1].items
    ELSE Flatten([k \in DOMAIN tree[n]._fields |-> FieldNodes(tree[n]._fields[k])])

\* call_for_nodes that goes on to the children whatever the callback returns.
DescendsAlways(rec, n, result) == IF rec THEN get_child_nodes(n) ELSE <<>>

\* Lines 54-56: the nodes call_for_nodes goes on to after callback(n)
\* returned result.
Descends(rec, n, result) ==
    IF rec /\ Falsy(result) THEN get_child_nodes(n) ELSE <<>>

\* An activation of call_for_nodes: its node, and the children still to call.
Activation(n, rest) == [node |-> n, rest |-> rest]

\* call_for_nodes(node, callback, recursive) called from outside: line 53,
\* the callback returning result.
CallForNodes(n, rec, result) ==
    /\ status = "idle"
    /\ calls' = calls + 1
    /\ recursive' = rec
    /\ visited' = <<[node |-> n, result |-> result]>>
    /\ stack' = <<Activation(n, Descends(rec, n, result))>>
    /\ status' = "walking"
    /\ ret' = [op |-> "callback", root |-> n, node |-> n, result |-> result]
    /\ UNCHANGED <<source, tree, parsed, children, offset, region,
                   sorted_children, warnings, error, baseline>>

\* One turn of the loop of lines 55-56: call_for_nodes on the next child,
\* whose line 53 calls the callback, which returns result.
VisitChild(result) ==
    /\ status = "walking"
    /\ Top(stack).rest # <<>>
    /\ visited' = Append(visited, [node |-> Head(Top(stack).rest), result |-> result])
    /\ stack' = Append(SetTop(stack, Activation(Top(stack).node, Tail(Top(stack).rest))),
                       Activation(Head(Top(stack).rest),
                                  Descends(recursive, Head(Top(stack).rest), result)))
    /\ ret' = [op |-> "callback", root |-> ret.root, node |-> Head(Top(stack).rest),
               result |-> result]
    /\ UNCHANGED <<source, tree, parsed, children, offset, region, sorted_children,
                   warnings, status, error, calls, baseline, recursive>>

\* The loop of an activation is over: call_for_nodes returns.
VisitReturn ==
    /\ status = "walking"
    /\ Top(stack).rest = <<>>
    /\ stack' = Pop(stack)
    /\ status' = IF Pop(stack) = <<>> THEN "returned" ELSE "walking"
    /\ ret' = [op |-> "return", root |-> ret.root, node |-> Top(stack).node,
               result |-> "None"]
    /\ UNCHANGED <<source, tree, parsed, children, offset, region, sorted_children,
                   warnings, error, calls, baseline, recursive, visited>>

VisitInit ==
    /\ tree \in {Forest[k] : k \in DOMAIN Forest}
    /\ source = <<>>
    /\ parsed = TRUE
    /\ children = FALSE
    /\ offset = 0
    /\ stack = <<>>
    /\ region = <<>>
    /\ sorted_children = <<>>
    /\ warnings = <<>>
    /\ status = "idle"
    /\ error = ""
    /\ calls = 0
    /\ baseline = <<>>
    /\ recursive = FALSE
    /\ visited = <<>>
    /\ ret = [op |-> "none"]

VisitNext ==
    \/ \E n \in DOMAIN tree, rec \in BOOLEAN, result \in Results :
        CallForNodes(n, rec, result)
    \/ \E result \in Results : VisitChild(result)
    \/ VisitReturn

VisitSpec == VisitInit /\ [][VisitNext]_vars

\* How many times the callback was called on the node c.
Visits(c) == Cardinality({i \in DOMAIN visited : visited[i].node = c})

\* How many times c stands among the children of the nodes on which the
\* first k calls of the callback returned a falsy result.
RECURSIVE Listed(_, _)
Listed(c, k) ==
    IF k = 0 THEN 0
    ELSE Listed(c, k - 1)
         + IF Falsy(visited[k].result)
           THEN Cardinality({i \in DOMAIN get_child_nodes(visited[k].node) :
                                get_child_nodes(visited[k].node)[i] = c})
           ELSE 0

\* C15: when call_for_nodes(node, callback, recursive) has returned, the
\* callback was called on node once for the call itself; and it was called on
\* the nodes of get_child_nodes of a visited node, once for each time they are
\* listed there, exactly when recursive is set and the callback returned a
\* falsy result for that visited node.
C15_CallForNodes ==
    status = "returned" =>
        \A c \in DOMAIN tree :
            Visits(c) = (IF c = ret.root THEN 1 ELSE 0)
                        + (IF recursive THEN Listed(c, Len(visited)) ELSE 0)

\* A recursive call has returned in which the callback returned a truthy
\* result for a node with children and a falsy one for another.
C15_Witness ==
    /\ status = "returned"
    /\ recursive
    /\ \E i, j \in DOMAIN visited :
        /\ ~Falsy(visited[i].result)
        /\ get_child_nodes(visited[i].node) # <<>>
        /\ Falsy(visited[j].result)
        /\ get_child_nodes(visited[j].node) # <<>>

====
